---------------------------- MODULE Spec2Model ----------------------------
(***************************************************************************)
(* DeFi credit scoring for Aave V2 wallets: the feature extractor          *)
(* (src/src/feature_engineer.py) and the score calibrator                  *)
(* (src/src/scorer.py), as state machines.                                 *)
(*                                                                         *)
(* Numbers.  Amounts, raw scores and timestamps (seconds) are integers.    *)
(* A feature value is a record with a kind k:                              *)
(*   k = "fin"     the rational n/d (d > 0, lowest terms)                  *)
(*   k = "nan"     IEEE not-a-number (pandas' result of an undefined       *)
(*                 statistic, e.g. the sample std of one value)            *)
(*   k = "inf"     float('inf')                                            *)
(*   k = "sqrt"    x = (n/d) * sqrt(rn/rd), with n/d > 0 and rn/rd > 0     *)
(*   k = "recip1"  1 / (x + 1)     for that x                              *)
(*   k = "recip001" 1 / (x + 1/100) for that x                             *)
(* so that standard deviations are carried exactly (by their variance,     *)
(* taken in the common unit n/d of the values).  The floats of the code    *)
(* round these values; the claims depend on their kind and on the          *)
(* values 0 and 1, which are exact.                                        *)
(* Calibrated scores are 1000 * (index / 100.0); the model carries the     *)
(* exact value 10 * index (the float differs from it by at most one ulp,   *)
(* and is exact at the tier boundaries 400, 500, ..., 900 and at 0, 1000). *)
(***************************************************************************)
EXTENDS Integers, Sequences, FiniteSets, TLC

VARIABLES
    df,                 \* processed transactions: the events, sorted by (wallet, timestamp)
    columns,            \* optional columns of df: [asset, gas]
    clock,              \* the wall clock datetime.now() reads, in seconds
    features_df,        \* the result of the last engineer_features(df)
    prev_features_df,   \* the result of the engineer_features(df) before the last
    wallet_features,    \* the result of the last _extract_wallet_features(df)
    raw_scores,         \* the learner's predictions, one per row of features_df
    calibrated_scores,  \* the result of the last _calibrate_scores(raw_scores)
    results,            \* the score records score_wallets returns
    pc,                 \* the stage the run has reached
    input_file,         \* main: the transaction records in the file args.input
    raw_data,           \* main: the transaction records json.load returned
    model,              \* main: the model stage: how the model was obtained
    output,             \* main: the rows of the output CSV file, NotWritten before to_csv
    exit_status,        \* main: the exit status of the process, Running before it ends
    feature_columns,    \* trainer: the columns of the frame handed to the trainer
    noise,              \* trainer: the draws of np.random.normal, one per row
    train_X,            \* trainer and scorer: the feature matrix X after the fills
    train_y             \* trainer: the synthetic targets y

pipelineVars == <<df, columns, clock, features_df, prev_features_df, wallet_features,
                  raw_scores, calibrated_scores, results, pc>>

mainVars == <<input_file, raw_data, model, output, exit_status>>

trainerVars == <<feature_columns, noise, train_X, train_y>>

vars == <<pipelineVars, mainVars, trainerVars>>

\* The values of the variables a run has not touched yet.
NotWritten == [written |-> FALSE, rows |-> <<>>]

\* The exit status of a process that has not ended.
Running == 0 - 1

\* No model yet; targets counts the synthetic targets generated in the run.
NoModel == [kind |-> "none", retrain |-> FALSE, model_exists |-> FALSE, targets |-> 0]

MainIdle ==
    /\ input_file = <<>>
    /\ raw_data = <<>>
    /\ model = NoModel
    /\ output = NotWritten
    /\ exit_status = Running

TrainerIdle == feature_columns = {} /\ noise = <<>> /\ train_X = <<>> /\ train_y = <<>>

(***************************************************************************)
(* Bounds of the model.                                                    *)
(***************************************************************************)
MaxPop == 4        \* accounts in a population handed to the calibrator
MaxRaw == 2        \* raw scores are drawn from -1 .. MaxRaw
MaxEvents == 3     \* events of one extraction / of one pipeline population
MaxTicks == 1      \* days the wall clock advances during a run

RawValues == (0 - 1) .. MaxRaw

\* The learner's predictions in a run of the whole pipeline.
PredictedValues == 0 .. (MaxRaw - 1)

(***************************************************************************)
(* Sequences and integer helpers.                                          *)
(***************************************************************************)
RECURSIVE Sum(_)
Sum(s) == IF s = <<>> THEN 0 ELSE Head(s) + Sum(Tail(s))

RECURSIVE SumSq(_)
SumSq(s) == IF s = <<>> THEN 0 ELSE Head(s) * Head(s) + SumSq(Tail(s))

Range(s) == {s[i] : i \in DOMAIN s}

SetMax(S) == CHOOSE x \in S : \A y \in S : y <= x

SetMin(S) == CHOOSE x \in S : \A y \in S : x <= y

\* The ascending stable sort of an integer sequence (np.sort / sort_values).
RECURSIVE InsertSorted(_, _)
InsertSorted(s, x) ==
    IF s = <<>> THEN <<x>>
    ELSE IF x < Head(s) THEN <<x>> \o s
    ELSE <<Head(s)>> \o InsertSorted(Tail(s), x)

RECURSIVE SortInts(_)
SortInts(s) ==
    IF s = <<>> THEN <<>>
    ELSE InsertSorted(SortInts(SubSeq(s, 1, Len(s) - 1)), s[Len(s)])

(***************************************************************************)
(* scorer.py: the calibrator.                                              *)
(***************************************************************************)

\* np.percentile(raw_scores, q), linear interpolation, times 100 (exact):
\* the virtual index is q/100 * (n-1) = j + r/100 and the value is
\* a[j] + (a[j+1] - a[j]) * r/100 over the sorted scores a (0-based j).
Percentile100(a, q) ==
    LET n == Len(a)
        pos == q * (n - 1)
        j == pos \div 100
        r == pos % 100
        lo == a[j + 1]
        hi == a[IF j + 2 <= n THEN j + 2 ELSE n]
    IN  100 * lo + (hi - lo) * r

\* np.percentile(raw_scores, np.arange(0, 101, 1)): the 101 cut points, times 100.
Percentiles100(raw) ==
    LET a == SortInts(raw) IN [q \in 0..100 |-> Percentile100(a, q)]

\* np.searchsorted(percentiles, score), side='left': the index of the first
\* cut point >= score, i.e. the number of cut points below score.
searchsorted(percentiles, score) ==
    Cardinality({q \in DOMAIN percentiles : percentiles[q] < 100 * score})

\* np.clip(x, lo, hi)
clip(x, lo, hi) == IF x < lo THEN lo ELSE IF x > hi THEN hi ELSE x

\* A mis-scaled, unclipped calibration: the search index is not divided
\* by 100 and the bounds are not enforced.
CalibrateUnscaled(raw) ==
    LET percentiles == Percentiles100(raw)
    IN  [i \in DOMAIN raw |-> 1000 * searchsorted(percentiles, raw[i])]

\* A min-max calibration: the score's position in the range of the raw
\* scores, undefined (-1 stands for NaN) when the range has zero width.
CalibrateMinMax(raw) ==
    LET lo == SetMin(Range(raw))
        hi == SetMax(Range(raw))
    IN  [i \in DOMAIN raw |->
            IF hi = lo THEN 0 - 1 ELSE (1000 * (raw[i] - lo)) \div (hi - lo)]

\* A rank calibration that breaks ties by position: the score of an
\* account is the share of the accounts that precede it in a stable sort.
CalibrateByRank(raw) ==
    [i \in DOMAIN raw |->
        (1000 * Cardinality({j \in DOMAIN raw :
                                \/ raw[j] < raw[i]
                                \/ raw[j] = raw[i] /\ j < i})) \div Len(raw)]

\* WalletScorer._calibrate_scores
_calibrate_scores(raw) ==
    LET percentiles == Percentiles100(raw)
    IN  [i \in DOMAIN raw |->
            clip((1000 * searchsorted(percentiles, raw[i])) \div 100, 0, 1000)]

\* Thresholds shifted by one: the boundary scores fall in the lower tier.
AssignRiskExclusive(score) ==
    IF score > 900 THEN "Excellent"
    ELSE IF score > 800 THEN "Very Good"
    ELSE IF score > 700 THEN "Good"
    ELSE IF score > 600 THEN "Fair"
    ELSE IF score > 500 THEN "Poor"
    ELSE IF score > 400 THEN "Very Poor"
    ELSE "Unacceptable"

\* WalletScorer._assign_risk_category
_assign_risk_category(score) ==
    IF score >= 900 THEN "Excellent"
    ELSE IF score >= 800 THEN "Very Good"
    ELSE IF score >= 700 THEN "Good"
    ELSE IF score >= 600 THEN "Fair"
    ELSE IF score >= 500 THEN "Poor"
    ELSE IF score >= 400 THEN "Very Poor"
    ELSE "Unacceptable"

(***************************************************************************)
(* Feature values: exact arithmetic over the value records.                *)
(***************************************************************************)
RECURSIVE Gcd(_, _)
Gcd(a, b) == IF b = 0 THEN a ELSE Gcd(b, a % b)

Abs(x) == IF x < 0 THEN 0 - x ELSE x

\* The rational n/d, d # 0, in lowest terms with a positive denominator.
Frac(n, d) ==
    LET g == Gcd(Abs(n), Abs(d))
        sg == IF d < 0 THEN 0 - 1 ELSE 1
    IN  [k |-> "fin", n |-> (sg * n) \div g, d |-> (sg * d) \div g]

Num(n) == [k |-> "fin", n |-> n, d |-> 1]

NaN == [k |-> "nan", n |-> 0, d |-> 0]

Inf == [k |-> "inf", n |-> 1, d |-> 0]

IsFinite(v) == v.k \notin {"nan", "inf"}

\* x / (n/d) for a value x and a rational n/d > 0.
DivBy(x, n, d) ==
    CASE x.k = "fin" -> Frac(x.n * d, x.d * n)
      [] x.k = "sqrt" ->
            LET c == Frac(x.n * d, x.d * n)
            IN  [k |-> "sqrt", n |-> c.n, d |-> c.d, rn |-> x.rn, rd |-> x.rd]
      [] OTHER -> x

\* 1.0 / (x + 1) for x a standard deviation (0, irrational or NaN).
RecipPlus1(x) ==
    CASE x.k = "fin" -> Frac(x.d, x.n + x.d)
      [] x.k = "sqrt" -> [x EXCEPT !.k = "recip1"]
      [] OTHER -> x

\* 1.0 / (x + 0.01) for x a coefficient of variation (0, irrational or NaN).
RecipPlus001(x) ==
    CASE x.k = "fin" -> Frac(100 * x.d, 100 * x.n + x.d)
      [] x.k = "sqrt" -> [x EXCEPT !.k = "recip001"]
      [] OTHER -> x

\* Series.mean() of a sequence of integers (NaN when empty).
Mean(xs) == IF xs = <<>> THEN NaN ELSE Frac(Sum(xs), Len(xs))

\* Series.var(), the sample variance (ddof = 1): NaN for fewer than 2 values.
Var(xs) ==
    LET n == Len(xs)
    IN  IF n < 2 THEN NaN
        ELSE Frac(n * SumSq(xs) - Sum(xs) * Sum(xs), n * (n - 1))

\* The greatest common divisor of the values of xs (their common unit).
RECURSIVE GcdAll(_)
GcdAll(xs) == IF xs = <<>> THEN 0 ELSE Gcd(Abs(Head(xs)), GcdAll(Tail(xs)))

\* Series.std(), the sample standard deviation (ddof = 1): NaN for fewer
\* than 2 values, else u * sqrt(Var(xs / u)) for the common unit u of xs.
Std(xs) ==
    LET u == GcdAll(xs)
        v == Var([i \in DOMAIN xs |-> xs[i] \div u])
    IN  IF Len(xs) < 2 THEN NaN
        ELSE IF u = 0 \/ v.n = 0 THEN Num(0)
        ELSE [k |-> "sqrt", n |-> u, d |-> 1, rn |-> v.n, rd |-> v.d]

\* Series.median() of a non-empty sequence of integers.
Median(xs) ==
    LET a == SortInts(xs)
        n == Len(a)
    IN  IF n % 2 = 1 THEN Num(a[(n + 1) \div 2])
        ELSE Frac(a[n \div 2] + a[n \div 2 + 1], 2)

\* value_counts() / groupby().size(): the values of xs in the order of their
\* first appearance, and the number of times each one occurs.
RECURSIVE Distinct(_)
Distinct(xs) ==
    IF xs = <<>> THEN <<>>
    ELSE LET init == Distinct(SubSeq(xs, 1, Len(xs) - 1))
             x == xs[Len(xs)]
         IN  IF x \in Range(init) THEN init ELSE Append(init, x)

Count(xs, x) == Cardinality({i \in DOMAIN xs : xs[i] = x})

Counts(xs) == LET u == Distinct(xs) IN [i \in DOMAIN u |-> Count(xs, u[i])]

\* value_counts().iloc[0]: the largest count (of a non-empty sequence).
TopCount(xs) == SetMax(Range(Counts(xs)))

\* value_counts().index[0]: the most frequent value, the first to appear
\* among equally frequent ones.
TopValue(xs) ==
    LET u == Distinct(xs)
        i == CHOOSE i \in DOMAIN u :
                /\ Count(xs, u[i]) = TopCount(xs)
                /\ \A j \in DOMAIN u : Count(xs, u[j]) = TopCount(xs) => i <= j
    IN  u[i]

\* Series.diff() of the sorted timestamps without its leading NaN: the
\* successive gaps.
Diffs(a) == [i \in 1..(Len(a) - 1) |-> a[i + 1] - a[i]]

(***************************************************************************)
(* Timestamps are seconds since 2023-01-01 00:00:00 and lie in 2023.       *)
(***************************************************************************)
Day == 24 * 3600

\* Timestamp.date (as the day of the year, from 0) and Timestamp.hour
DateOf(ts) == ts \div Day

HourOf(ts) == (ts % Day) \div 3600

\* Timedelta.days
Days(seconds) == seconds \div Day

\* The calendar of the dates 1901 to 2099, in which every fourth year is a
\* leap year; date 0 is 2023-01-01, a Sunday.  The day of a date in its
\* cycle of four years, the cycles starting on 1 January 2021, 2025, ...
CycleDay(date) == (date + 730) % 1461

\* The year of a date in its cycle, 0 to 3; year 3 is the leap year.
YearInCycle(date) ==
    IF CycleDay(date) >= 3 * 365 THEN 3 ELSE CycleDay(date) \div 365

\* The day of a date in its year, 1 January being 0.
DayOfYear(date) == CycleDay(date) - 365 * YearInCycle(date)

\* The day of the week of a date, Monday 1 to Sunday 7.
Weekday(date) == ((date + 6) % 7) + 1

\* The number of ISO weeks of a year: 53 when its 1 January is a Thursday,
\* or a Wednesday in a leap year.
WeeksInYear(first, leap) == IF first = 4 \/ (leap /\ first = 3) THEN 53 ELSE 52

\* Timestamp.isocalendar().week: the week of the ISO year the Thursday of
\* the date's week falls in.
IsoWeek(ts) ==
    LET date == DateOf(ts)
        week == (DayOfYear(date) + 1 - Weekday(date) + 10) \div 7
        jan1 == date - DayOfYear(date)
        previous_leap == YearInCycle(date) = 0
        previous_jan1 == jan1 - (IF previous_leap THEN 366 ELSE 365)
    IN  IF week < 1 THEN WeeksInYear(Weekday(previous_jan1), previous_leap)
        ELSE IF week > WeeksInYear(Weekday(jan1), YearInCycle(date) = 3) THEN 1
        ELSE week

\* Timestamp.month
MonthOf(ts) ==
    LET date == DateOf(ts)
        feb == IF YearInCycle(date) = 3 THEN 1 ELSE 0
        ends == <<31, 59 + feb, 90 + feb, 120 + feb, 151 + feb, 181 + feb,
                  212 + feb, 243 + feb, 273 + feb, 304 + feb, 334 + feb, 365 + feb>>
    IN  SetMin({m \in 1..12 : DayOfYear(date) < ends[m]})

(***************************************************************************)
(* feature_engineer.py.  An event (a row of df) is a record                *)
(* [wallet_address, action, amount, timestamp, hour, asset, gas_used];     *)
(* asset is "NaN" and gas_used is NoGas where the value is missing, and    *)
(* both are ignored when cols says the column is absent.  cols.asset is    *)
(* "absent", "object" (a plain column) or "category" (the dtype            *)
(* DataProcessor._convert_types gives it, whose categories                 *)
(* cols.asset_categories are those of the whole population).               *)
(***************************************************************************)
Actions == <<"deposit", "borrow", "repay", "redeemunderlying", "liquidationcall">>

NoGas == 0 - 1

Col(data, f) == [i \in DOMAIN data |-> data[i][f]]

\* data[data['action'] == a]
WithAction(data, a) == SelectSeq(data, LAMBDA e : e.action = a)

\* The values of a column that are present (value_counts and nunique drop NaN).
Present(xs, missing) == SelectSeq(xs, LAMBDA x : x # missing)

\* FeatureEngineer._basic_transaction_features
_basic_transaction_features(data) ==
    LET total_actions == Len(data)
        count(a) == Len(WithAction(data, a))
        ratio(a) == IF total_actions > 0 THEN Frac(count(a), total_actions) ELSE Num(0)
        amounts == Col(data, "amount")
        mean == Mean(amounts)
    IN  [total_transactions |-> Num(Len(data)),
         unique_days_active |-> Num(Cardinality({DateOf(data[i].timestamp) : i \in DOMAIN data})),
         deposit_count |-> Num(count("deposit")),
         deposit_ratio |-> ratio("deposit"),
         borrow_count |-> Num(count("borrow")),
         borrow_ratio |-> ratio("borrow"),
         repay_count |-> Num(count("repay")),
         repay_ratio |-> ratio("repay"),
         redeemunderlying_count |-> Num(count("redeemunderlying")),
         redeemunderlying_ratio |-> ratio("redeemunderlying"),
         liquidationcall_count |-> Num(count("liquidationcall")),
         liquidationcall_ratio |-> ratio("liquidationcall"),
         total_amount |-> Num(Sum(amounts)),
         avg_amount |-> mean,
         median_amount |-> Median(amounts),
         std_amount |-> Std(amounts),
         min_amount |-> Num(SetMin(Range(amounts))),
         max_amount |-> Num(SetMax(Range(amounts))),
         amount_cv |-> IF mean.k = "fin" /\ mean.n > 0
                       THEN DivBy(Std(amounts), mean.n, mean.d) ELSE Num(0)]

\* FeatureEngineer._behavioral_pattern_features
_behavioral_pattern_features(data) ==
    LET data_sorted == SortInts(Col(data, "timestamp"))
        time_diffs == Diffs(data_sorted)
        gaps ==
            IF Len(data_sorted) > 1
            THEN [avg_time_between_transactions |-> Mean(time_diffs),
                  std_time_between_transactions |-> Std(time_diffs),
                  min_time_between_transactions |-> Num(SetMin(Range(time_diffs))),
                  max_time_between_transactions |-> Num(SetMax(Range(time_diffs)))]
            ELSE [avg_time_between_transactions |-> Num(0),
                  std_time_between_transactions |-> Num(0),
                  min_time_between_transactions |-> Num(0),
                  max_time_between_transactions |-> Num(0)]
        daily_counts == Counts([i \in DOMAIN data |-> DateOf(data[i].timestamp)])
        consistency ==
            [activity_consistency |-> RecipPlus1(Std(daily_counts)),
             max_daily_transactions |->
                 IF daily_counts # <<>> THEN Num(SetMax(Range(daily_counts))) ELSE Num(0),
             avg_daily_transactions |->
                 IF daily_counts # <<>> THEN Mean(daily_counts) ELSE Num(0)]
        hours == Col(data, "hour")
        time_of_day ==
            [activity_hours_spread |-> Num(Len(Distinct(hours))),
             most_active_hour |-> IF hours # <<>> THEN Num(TopValue(hours)) ELSE Num(0)]
    IN  time_of_day @@ consistency @@ gaps

\* A repayment ratio that defaults to 0 when nothing was borrowed.
RepaymentRatioZeroDefault(total_repaid, total_borrowed) ==
    IF total_borrowed > 0 THEN Frac(total_repaid, total_borrowed) ELSE Num(0)

\* 'repayment_ratio': total_repaid / total_borrowed if total_borrowed > 0 else 1.0
repayment_ratio(total_repaid, total_borrowed) ==
    IF total_borrowed > 0 THEN Frac(total_repaid, total_borrowed) ELSE Num(1)

\* 'leverage_ratio': total_borrowed / total_deposited if total_deposited > 0 else 0
leverage_ratio(total_borrowed, total_deposited) ==
    IF total_deposited > 0 THEN Frac(total_borrowed, total_deposited) ELSE Num(0)

\* Days since the last liquidation that are 0 when there was none.
DaysSinceLiquidationNoSentinel(data, liquidations) ==
    IF liquidations # <<>>
    THEN Num(Days(SetMax(Range(Col(data, "timestamp")))
                  - SetMax(Range(Col(liquidations, "timestamp")))))
    ELSE Num(0)

\* 'days_since_last_liquidation':
\*     (data['timestamp'].max() - liquidations['timestamp'].max()).days
\*     if not liquidations.empty else 9999
days_since_last_liquidation(data, liquidations) ==
    IF liquidations # <<>>
    THEN Num(Days(SetMax(Range(Col(data, "timestamp")))
                  - SetMax(Range(Col(liquidations, "timestamp")))))
    ELSE Num(9999)

\* A deposit-to-borrow ratio that defaults to 0 when nothing was borrowed.
DepositToBorrowZeroDefault(total_deposited, total_borrowed) ==
    IF total_borrowed > 0 THEN Frac(total_deposited, total_borrowed) ELSE Num(0)

\* 'deposit_to_borrow_ratio': total_deposited / total_borrowed
\*                            if total_borrowed > 0 else float('inf')
deposit_to_borrow_ratio(total_deposited, total_borrowed) ==
    IF total_borrowed > 0 THEN Frac(total_deposited, total_borrowed) ELSE Inf

\* FeatureEngineer._risk_assessment_features
_risk_assessment_features(data) ==
    LET liquidations == WithAction(data, "liquidationcall")
        liquidation ==
            [liquidation_count |-> Num(Len(liquidations)),
             liquidation_ratio |->
                 IF Len(data) > 0 THEN Frac(Len(liquidations), Len(data)) ELSE Num(0),
             days_since_last_liquidation |->
                 days_since_last_liquidation(data, liquidations)]
        borrows == WithAction(data, "borrow")
        repays == WithAction(data, "repay")
        total_borrowed == IF borrows # <<>> THEN Sum(Col(borrows, "amount")) ELSE 0
        total_repaid == IF repays # <<>> THEN Sum(Col(repays, "amount")) ELSE 0
        borrowing ==
            [total_borrowed |-> Num(total_borrowed),
             total_repaid |-> Num(total_repaid),
             repayment_ratio |-> repayment_ratio(total_repaid, total_borrowed),
             outstanding_debt |->
                 Num(IF total_borrowed - total_repaid > 0
                     THEN total_borrowed - total_repaid ELSE 0)]
        deposits == WithAction(data, "deposit")
        total_deposited == IF deposits # <<>> THEN Sum(Col(deposits, "amount")) ELSE 0
        leverage ==
            [leverage_ratio |-> leverage_ratio(total_borrowed, total_deposited),
             deposit_to_borrow_ratio |->
                 deposit_to_borrow_ratio(total_deposited, total_borrowed)]
    IN  leverage @@ borrowing @@ liquidation

\* data['asset'].value_counts(): the counts of the assets that occur and,
\* for a categorical column, a count (possibly 0) for every other category.
AssetCounts(data, cols) ==
    LET assets == Present(Col(data, "asset"), "NaN")
        unused == IF cols.asset = "category"
                  THEN cols.asset_categories \ Range(assets) ELSE {}
    IN  Counts(assets) \o [i \in 1..Cardinality(unused) |-> 0]

\* FeatureEngineer._portfolio_management_features
_portfolio_management_features(data, cols) ==
    LET asset_counts == AssetCounts(data, cols)
        top == SetMax(Range(asset_counts))
        diversification ==
            IF cols.asset # "absent"
            THEN [unique_assets |-> Num(Len(Distinct(Present(Col(data, "asset"), "NaN")))),
                  asset_concentration |->
                      IF asset_counts # <<>> THEN Frac(top, Len(data)) ELSE Num(0),
                  asset_diversity_score |->
                      IF asset_counts # <<>> THEN Frac(Len(data) - top, Len(data)) ELSE Num(0)]
            ELSE [unique_assets |-> Num(1),
                  asset_concentration |-> Num(1),
                  asset_diversity_score |-> Num(0)]
        deposits == WithAction(data, "deposit")
        withdrawals == WithAction(data, "redeemunderlying")
        position ==
            [position_changes |-> Num(Len(deposits) + Len(withdrawals)),
             deposit_withdrawal_ratio |->
                 IF Len(withdrawals) > 0 THEN Frac(Len(deposits), Len(withdrawals)) ELSE Inf]
    IN  position @@ diversification

\* An account age measured up to the wall clock instead of the last event.
AccountAgeToNow(first_tx, last_tx) == Days(clock - first_tx) + 1

\* An account age without the extra day.
AccountAgeNoExtraDay(first_tx, last_tx) == Days(last_tx - first_tx)

\* account_age_days = (last_tx - first_tx).days + 1
account_age_days(first_tx, last_tx) == Days(last_tx - first_tx) + 1

\* FeatureEngineer._temporal_features; now is what datetime.now() returns.
_temporal_features(data, now) ==
    LET timestamps == Col(data, "timestamp")
        first_tx == SetMin(Range(timestamps))
        last_tx == SetMax(Range(timestamps))
        age == account_age_days(first_tx, last_tx)
        span ==
            [account_age_days |-> Num(age),
             transactions_per_day |-> IF age > 0 THEN Frac(Len(data), age) ELSE Num(0),
             days_since_last_activity |-> Num(Days(now - last_tx))]
        weekly_activity == Counts([i \in DOMAIN data |-> IsoWeek(data[i].timestamp)])
        monthly_activity == Counts([i \in DOMAIN data |-> MonthOf(data[i].timestamp)])
        patterns ==
            [weekly_activity_variance |->
                 IF Len(weekly_activity) > 1 THEN Var(weekly_activity) ELSE Num(0),
             monthly_activity_variance |->
                 IF Len(monthly_activity) > 1 THEN Var(monthly_activity) ELSE Num(0)]
    IN  patterns @@ span

\* The fallback of the interval features with one of its two keys left out.
NoIntervalFeaturesOneKey == [time_regularity_score |-> Num(0)]

\* The interval features of an account with too few events (the else branches
\* of the regular interval detection).
no_interval_features ==
    [time_regularity_score |-> Num(0), most_common_interval_ratio |-> Num(0)]

\* FeatureEngineer._bot_detection_features
_bot_detection_features(data, cols) ==
    LET time_diffs == Diffs(SortInts(Col(data, "timestamp")))
        mean == Mean(time_diffs)
        cv_time == IF mean.k = "fin" /\ mean.n > 0
                   THEN DivBy(Std(time_diffs), mean.n, mean.d) ELSE Num(0)
        intervals ==
            IF Len(data) > 2
            THEN IF Len(time_diffs) > 0
                 THEN [time_regularity_score |-> RecipPlus001(cv_time),
                       most_common_interval_ratio |->
                           Frac(TopCount(time_diffs), Len(time_diffs))]
                 ELSE no_interval_features
            ELSE no_interval_features
        amounts == Col(data, "amount")
        gas_values == Present(Col(data, "gas_used"), NoGas)
        rest ==
            [amount_uniformity_score |->
                 IF amounts # <<>> THEN Frac(TopCount(amounts), Len(data)) ELSE Num(0),
             gas_optimization_score |->
                 IF cols.gas # "absent"
                 THEN IF gas_values # <<>>
                      THEN Frac(TopCount(gas_values), Len(data)) ELSE Num(0)
                 ELSE Num(0),
             transaction_complexity |->
                 IF Len(data) > 0
                 THEN Frac(Cardinality(Range(Col(data, "action"))), Len(data)) ELSE Num(0)]
    IN  rest @@ intervals

\* FeatureEngineer._extract_wallet_features: each group updates the record
\* (a later group's value would replace an earlier one of the same name).
_extract_wallet_features(wallet_data, cols, now) ==
    _bot_detection_features(wallet_data, cols)
        @@ _temporal_features(wallet_data, now)
        @@ _portfolio_management_features(wallet_data, cols)
        @@ _risk_assessment_features(wallet_data)
        @@ _behavioral_pattern_features(wallet_data)
        @@ _basic_transaction_features(wallet_data)

\* A loop over the rows' wallets instead of the distinct wallets.
RowWallets(d) == Col(d, "wallet_address")

\* df['wallet_address'].unique(): the wallets in the order of first appearance.
unique_wallets(d) == Distinct(Col(d, "wallet_address"))

\* FeatureEngineer.engineer_features: one record per distinct wallet, the
\* wallet's features plus its address.  _extract_wallet_features reads
\* datetime.now() once for each wallet: nows[i] is what it returns while
\* the i-th wallet is extracted.
engineer_features(d, cols, nows) ==
    LET wallets == unique_wallets(d)
    IN  [i \in DOMAIN wallets |->
            LET wallet_data == SelectSeq(d, LAMBDA e : e.wallet_address = wallets[i])
            IN  [wallet_address |-> wallets[i]]
                    @@ _extract_wallet_features(wallet_data, cols, nows[i])]

(***************************************************************************)
(* The calibrator alone: a population of raw scores, then                  *)
(* _calibrate_scores.                                                      *)
(***************************************************************************)
RawPopulations == UNION {[1..n -> RawValues] : n \in 1..MaxPop}

InitCalibrate ==
    /\ raw_scores \in RawPopulations
    /\ calibrated_scores = <<>>
    /\ pc = "raw"
    /\ df = <<>>
    /\ columns = [asset |-> "absent", gas |-> "absent"]
    /\ clock = 0
    /\ features_df = <<>>
    /\ prev_features_df = <<>>
    /\ wallet_features = <<>>
    /\ results = <<>>
    /\ MainIdle /\ TrainerIdle

Calibrate ==
    /\ pc = "raw"
    /\ calibrated_scores' = _calibrate_scores(raw_scores)
    /\ pc' = "calibrated"
    /\ UNCHANGED <<mainVars, trainerVars, df, columns, clock, features_df, prev_features_df,
                   wallet_features, raw_scores, results>>

SpecCalibrate == InitCalibrate /\ [][Calibrate]_vars

(***************************************************************************)
(* The tier ladder alone: a score record, then                             *)
(* results['risk_category'] = results['credit_score'].apply(...).          *)
(***************************************************************************)
InitTier ==
    /\ \E s \in 0..1000 :
          results = <<[wallet_address |-> "0xa", credit_score |-> s,
                       risk_category |-> "unassigned"]>>
    /\ pc = "calibrated"
    /\ raw_scores = <<>>
    /\ calibrated_scores = <<>>
    /\ df = <<>>
    /\ columns = [asset |-> "absent", gas |-> "absent"]
    /\ clock = 0
    /\ features_df = <<>>
    /\ prev_features_df = <<>>
    /\ wallet_features = <<>>
    /\ MainIdle /\ TrainerIdle

AssignRisk ==
    /\ pc = "calibrated"
    /\ results' = [i \in DOMAIN results |->
                      [results[i] EXCEPT
                          !.risk_category = _assign_risk_category(results[i].credit_score)]]
    /\ pc' = "scored"
    /\ UNCHANGED <<mainVars, trainerVars, df, columns, clock, features_df, prev_features_df,
                   wallet_features, raw_scores, calibrated_scores>>

SpecTier == InitTier /\ [][AssignRisk]_vars

(***************************************************************************)
(* Inputs of the feature extractor.                                        *)
(***************************************************************************)
\* The wallet addresses, in their sort order.
WalletList == <<"0xa", "0xb", "0xc", "0xd", "0xe">>

\* The wallets of the populations whose events are drawn freely.
Wallets == {"0xa", "0xb"}

WalletRank(w) == CHOOSE i \in DOMAIN WalletList : WalletList[i] = w

\* The (action, amount) pairs of the events.
EventKinds ==
    {<<"deposit", 1>>, <<"borrow", 1>>, <<"borrow", 2>>,
     <<"repay", 1>>, <<"redeemunderlying", 1>>, <<"liquidationcall", 2>>}

\* Mon 2023-01-02 10:00, Tue 2023-01-03 09:00, Tue 2023-02-07 10:00
Times == {Day + 10 * 3600, 2 * Day + 9 * 3600, 37 * Day + 10 * 3600}

\* The wall clock at the start of a run: Fri 2023-02-10 12:00
Now0 == 40 * Day + 12 * 3600

\* The instants the wall clock is read at: 12:00 of the days of a run.
ClockValues == {Now0 + k * Day : k \in 0..MaxTicks}

\* What datetime.now() can return to the n reads of one engineer_features
\* call that starts at the instant from: instants that do not decrease.
ClockReadings(n, from) ==
    {nows \in [1..n -> {c \in ClockValues : c >= from}] :
        \A i \in 1..(n - 1) : nows[i] <= nows[i + 1]}

\* The wall clock after the reads nows of a call that started at from.
ClockAfter(nows, from) == IF nows = <<>> THEN from ELSE nows[Len(nows)]

\* The last instant: a run that starts at it reads the same day every time.
LastNow == Now0 + MaxTicks * Day

\* The contents of the optional columns, row by row.
AssetAt(pattern, i) ==
    CASE pattern = "same" -> "USDC"
      [] pattern = "mixed" -> IF i = 1 THEN "USDC" ELSE "DAI"
      [] pattern = "first" -> IF i = 1 THEN "USDC" ELSE "NaN"
      [] OTHER -> "NaN"

GasAt(pattern, i) ==
    CASE pattern = "same" -> 21000
      [] pattern = "mixed" -> 21000 + i
      [] OTHER -> NoGas

ColumnConfigs ==
    {[asset |-> "absent", asset_pattern |-> "nan", extra |-> {},
      gas |-> "absent", gas_pattern |-> "nan"],
     [asset |-> "object", asset_pattern |-> "nan", extra |-> {},
      gas |-> "present", gas_pattern |-> "nan"],
     [asset |-> "object", asset_pattern |-> "mixed", extra |-> {},
      gas |-> "present", gas_pattern |-> "same"],
     [asset |-> "category", asset_pattern |-> "nan", extra |-> {"WETH"},
      gas |-> "absent", gas_pattern |-> "nan"],
     [asset |-> "category", asset_pattern |-> "first", extra |-> {},
      gas |-> "present", gas_pattern |-> "mixed"]}

Event(w, a, amt, ts, cfg, i) ==
    [wallet_address |-> w, action |-> a, amount |-> amt, timestamp |-> ts,
     hour |-> HourOf(ts), asset |-> AssetAt(cfg.asset_pattern, i),
     gas_used |-> GasAt(cfg.gas_pattern, i)]

\* The columns of a population: for a categorical asset column the
\* categories are the assets of the population (cfg.extra: those of the
\* wallets that are not part of d, when d is one wallet's rows).
ColumnsOf(d, cfg) ==
    [asset |-> cfg.asset, gas |-> cfg.gas,
     asset_categories |->
         IF cfg.asset = "category"
         THEN (Range(Col(d, "asset")) \ {"NaN"}) \cup cfg.extra ELSE {}]

\* DataProcessor._add_derived_fields sorts by (wallet_address, timestamp).
IsProcessed(d) ==
    \A i \in 1..(Len(d) - 1) :
        \/ WalletRank(d[i].wallet_address) < WalletRank(d[i + 1].wallet_address)
        \/ /\ d[i].wallet_address = d[i + 1].wallet_address
           /\ d[i].timestamp <= d[i + 1].timestamp

(***************************************************************************)
(* The extractor alone: the events of one account, then                    *)
(* _extract_wallet_features.                                               *)
(***************************************************************************)
InitExtract ==
    /\ \E n \in 1..MaxEvents, cfg \in ColumnConfigs :
       \E kinds \in [1..n -> EventKinds], tss \in [1..n -> Times] :
          /\ \A i \in 1..(n - 1) : tss[i] <= tss[i + 1]
          /\ df = [i \in 1..n |-> Event("0xa", kinds[i][1], kinds[i][2], tss[i], cfg, i)]
          /\ columns = ColumnsOf(df, cfg)
    /\ clock = Now0
    /\ pc = "processed"
    /\ features_df = <<>>
    /\ prev_features_df = <<>>
    /\ wallet_features = <<>>
    /\ raw_scores = <<>>
    /\ calibrated_scores = <<>>
    /\ results = <<>>
    /\ MainIdle /\ TrainerIdle

Extract ==
    /\ pc = "processed"
    /\ wallet_features' = _extract_wallet_features(df, columns, clock)
    /\ pc' = "extracted"
    /\ UNCHANGED <<mainVars, trainerVars, df, columns, clock, features_df, prev_features_df,
                   raw_scores, calibrated_scores, results>>

SpecExtract == InitExtract /\ [][Extract]_vars

(***************************************************************************)
(* The scoring pipeline (score_wallets.py, main): the processed            *)
(* transactions of a population, engineer_features, the model stage,       *)
(* score_wallets, to_csv and the summary.  A stage either completes or     *)
(* raises; main catches every Exception, logs it and calls sys.exit(1).    *)
(***************************************************************************)
PipelineKinds == {<<"deposit", 1>>, <<"borrow", 2>>, <<"redeemunderlying", 1>>}

PipelineTimes == {Day + 10 * 3600, 37 * Day + 10 * 3600}

\* process_transactions makes the asset column categorical.
PipelineConfigs ==
    {cfg \in ColumnConfigs : cfg.asset = "absent" \/ (cfg.asset = "category" /\ cfg.gas = "present")}

\* The processed events of a population with events of the given kinds,
\* and the wall clock at start.
InitPopulation(event_kinds, start) ==
    /\ \E n \in 1..MaxEvents, cfg \in PipelineConfigs :
       \E ws \in [1..n -> Wallets], kinds \in [1..n -> event_kinds],
          tss \in [1..n -> PipelineTimes] :
          /\ df = [i \in 1..n |-> Event(ws[i], kinds[i][1], kinds[i][2], tss[i], cfg, i)]
          /\ IsProcessed(df)
          /\ columns = ColumnsOf(df, cfg)
    /\ clock = start
    /\ pc = "processed"
    /\ features_df = <<>>
    /\ prev_features_df = <<>>
    /\ wallet_features = <<>>
    /\ raw_scores = <<>>
    /\ calibrated_scores = <<>>
    /\ results = <<>>
    /\ MainIdle /\ TrainerIdle

\* The pipeline from the processed events on, started on the last day.
Init == InitPopulation(PipelineKinds, LastNow)

\* An except block that also creates the (empty) output file.
HandleExceptionTruncating(out) ==
    [exit_status |-> 1, output |-> [written |-> TRUE, rows |-> <<>>]]

\* except Exception as e: logger.error(...); sys.exit(1).  The output file
\* is left as it is.
handle_exception(out) == [exit_status |-> 1, output |-> out]

\* A stage raises: control goes to the except block and the run ends.
Raise(failed) ==
    /\ pc' = failed
    /\ exit_status' = handle_exception(output).exit_status
    /\ output' = handle_exception(output).output

\* features_df = feature_engineer.engineer_features(processed_data); the
\* stage may raise (e.g. the TypeError of datetime.now() - last_tx for
\* timezone-aware timestamps, which the timestamps here do not carry).
EngineerFeatures ==
    /\ pc = "processed"
    /\ \/ /\ \E nows \in ClockReadings(Len(unique_wallets(df)), clock) :
                /\ features_df' = engineer_features(df, columns, nows)
                /\ clock' = ClockAfter(nows, clock)
          /\ pc' = "engineered"
          /\ UNCHANGED <<output, exit_status>>
       \/ /\ Raise("engineer failed")
          /\ UNCHANGED <<features_df, clock>>
    /\ UNCHANGED <<input_file, raw_data, model, trainerVars, df, columns, prev_features_df,
                   wallet_features, raw_scores, calibrated_scores, results>>

(***************************************************************************)
(* The preprocessing of the feature frame, by the trainer and the scorer.  *)
(***************************************************************************)
\* Series.fillna(fill)
fillna(v, fill) == IF v.k = "nan" THEN fill ELSE v

\* a <= b for values that are rationals or inf
ValueLE(a, b) ==
    IF b.k = "inf" THEN TRUE
    ELSE IF a.k = "inf" THEN FALSE
    ELSE a.n * b.d <= b.n * a.d

RECURSIVE InsertValue(_, _)
InsertValue(s, x) ==
    IF s = <<>> THEN <<x>>
    ELSE IF ValueLE(x, Head(s)) THEN <<x>> \o s
    ELSE <<Head(s)>> \o InsertValue(Tail(s), x)

RECURSIVE SortValues(_)
SortValues(s) ==
    IF s = <<>> THEN <<>>
    ELSE InsertValue(SortValues(SubSeq(s, 1, Len(s) - 1)), s[Len(s)])

\* Series.median(): the median of the values that are not NaN, NaN if none.
MedianOfValues(vs) ==
    LET a == SortValues(SelectSeq(vs, LAMBDA v : v.k # "nan"))
        n == Len(a)
        lo == a[n \div 2]
        hi == a[n \div 2 + 1]
    IN  IF n = 0 THEN NaN
        ELSE IF n % 2 = 1 THEN a[(n + 1) \div 2]
        ELSE IF hi.k = "inf" THEN Inf
        ELSE Frac(lo.n * hi.d + hi.n * lo.d, 2 * lo.d * hi.d)

\* X = features_df.drop('wallet_address', axis=1); X = X.fillna(X.median())
fill_missing(features, cols) ==
    LET kept == cols \ {"wallet_address"}
    IN  [i \in DOMAIN features |->
            [c \in kept |->
                fillna(features[i][c], MedianOfValues(Col(features, c)))]]

\* X.replace([np.inf, -np.inf], np.nan)
replace_inf(X) ==
    [i \in DOMAIN X |->
        [c \in DOMAIN X[i] |-> IF X[i][c].k = "inf" THEN NaN ELSE X[i][c]]]

\* X.fillna(X.median()): a column without a value has the median NaN and
\* stays as it is.
fillna_median(X) ==
    [i \in DOMAIN X |->
        [c \in DOMAIN X[i] |-> fillna(X[i][c], MedianOfValues(Col(X, c)))]]

\* ModelTrainer._preprocess_features and WalletScorer._preprocess_features,
\* up to the scaler: the matrix handed to fit_transform / transform.
_preprocess_features(X) == fillna_median(replace_inf(X))

\* StandardScaler keeps NaN; SelectKBest(f_regression) validates its input
\* and raises ValueError for a matrix that contains NaN.
selector_raises(X) == \E i \in DOMAIN X : \E c \in DOMAIN X[i] : X[i][c].k = "nan"

\* The columns of a frame of feature rows (pd.DataFrame([]) has none).
FrameColumns(features) == IF features = <<>> THEN {} ELSE DOMAIN features[1]

\* X = features_df.drop('wallet_address', axis=1) of score_wallets
drop_wallet_address(features) ==
    [i \in DOMAIN features |->
        [c \in FrameColumns(features) \ {"wallet_address"} |-> features[i][c]]]

cv == 5

\* A trainer whose drop passes over a missing wallet_address column and
\* that goes on with the frame of zero accounts.
TrainAcceptsEmptyFrame(features) ==
    /\ features # <<>>
    /\ \/ selector_raises(_preprocess_features(
                               fill_missing(features, FrameColumns(features))))
       \/ Len(features) < cv

\* ModelTrainer.train_model raises: for the frame of zero accounts the
\* drop of the wallet_address column pd.DataFrame([]) does not have
\* (KeyError); for a frame that has a column without any number left
\* after the two fills SelectKBest.fit_transform (ValueError, line 133);
\* for fewer than 5 rows cross_val_score(cv=5) (ValueError, line 156).
train_raises(features) ==
    \/ features = <<>>
    \/ selector_raises(_preprocess_features(
                           fill_missing(features, FrameColumns(features))))
    \/ Len(features) < cv

\* A model stage that trains on every run.
ShouldTrainAlways(retrain, model_exists) == TRUE

\* if args.retrain or not Path(args.model_path).exists():
should_train(retrain, model_exists) == retrain \/ ~model_exists

\* if args.retrain or not Path(args.model_path).exists(): train_model and
\* save_model, else load_model; either may raise for other reasons too
\* (an unreadable model file, a learner error).
TrainOrLoadModel ==
    /\ pc = "engineered"
    /\ \E retrain \in BOOLEAN, model_exists \in BOOLEAN, raised \in BOOLEAN :
          LET train == should_train(retrain, model_exists)
              fails == raised \/ (train /\ train_raises(features_df))
              \* _prepare_training_data generates a target per row once the
              \* drop of wallet_address has passed
              generated == IF train /\ features_df # <<>> THEN Len(features_df) ELSE 0
          IN  /\ model' = [kind |-> IF fails THEN "none"
                                    ELSE IF train THEN "trained" ELSE "loaded",
                           retrain |-> retrain, model_exists |-> model_exists,
                           targets |-> generated]
              /\ IF fails THEN Raise("model failed")
                 ELSE pc' = "model_ready" /\ UNCHANGED <<output, exit_status>>
    /\ UNCHANGED <<input_file, raw_data, trainerVars, df, columns, clock, features_df,
                   prev_features_df, wallet_features, raw_scores, calibrated_scores,
                   results>>

\* The rows of a frame in every order that sort_values('credit_score',
\* ascending=False) can give them: descending, equal scores in any order.
SortedDescending(rows) ==
    {[i \in DOMAIN rows |-> rows[perm[i]]] :
        perm \in {f \in [DOMAIN rows -> DOMAIN rows] :
                     /\ \A i, j \in DOMAIN rows : f[i] = f[j] => i = j
                     /\ \A i \in 1..(Len(rows) - 1) :
                           rows[f[i]].credit_score >= rows[f[i + 1]].credit_score}}

\* WalletScorer.score_wallets; raw is what model.predict returns for the
\* preprocessed features, one raw score per row.
score_wallets(features, raw) ==
    LET wallet_addresses == Col(features, "wallet_address")
        calibrated == _calibrate_scores(raw)
        rows == [i \in DOMAIN wallet_addresses |->
                    [wallet_address |-> wallet_addresses[i],
                     credit_score |-> calibrated[i],
                     risk_category |-> _assign_risk_category(calibrated[i])]]
    IN  SortedDescending(rows)

\* A scorer that accepts the frame of zero accounts.
ScoreNeverRaises(features) == FALSE

\* features_df['wallet_address'] raises KeyError on pd.DataFrame([]), the
\* columnless frame engineer_features builds for zero accounts (and on a
\* frame of zero rows that has the columns the scaler's transform raises
\* ValueError, before any score is predicted or calibrated); for a frame
\* that has a column without any number the selector's transform raises
\* ValueError (line 64).
score_raises(features) ==
    \/ features = <<>>
    \/ selector_raises(_preprocess_features(drop_wallet_address(features)))

\* scores = scorer.score_wallets(features_df); the stage may raise for
\* other reasons too (the scaler or the selector rejecting the matrix).
ScoreWallets ==
    /\ pc = "model_ready"
    /\ \E raised \in BOOLEAN :
          IF raised \/ score_raises(features_df)
          THEN /\ Raise("score failed")
               /\ UNCHANGED <<raw_scores, calibrated_scores, results>>
          ELSE /\ \E raw \in [DOMAIN features_df -> PredictedValues] :
                     /\ raw_scores' = raw
                     /\ calibrated_scores' = _calibrate_scores(raw)
                     /\ results' \in score_wallets(features_df, raw)
               /\ pc' = "scored"
               /\ UNCHANGED <<output, exit_status>>
    /\ UNCHANGED <<input_file, raw_data, model, trainerVars, df, columns, clock, features_df,
                   prev_features_df, wallet_features>>

\* scores.to_csv(args.output, index=False); raises when the file cannot be
\* opened.
SaveResults ==
    /\ pc = "scored"
    /\ \/ /\ output' = [written |-> TRUE, rows |-> results]
          /\ pc' = "saved"
          /\ UNCHANGED exit_status
       \/ Raise("save failed")
    /\ UNCHANGED <<input_file, raw_data, model, trainerVars, df, columns, clock, features_df,
                   prev_features_df, wallet_features, raw_scores, calibrated_scores,
                   results>>

\* The summary statistics and the score distribution are logged, then main
\* returns and the process ends with status 0.
LogSummary ==
    /\ pc = "saved"
    /\ \/ /\ pc' = "done"
          /\ exit_status' = 0
          /\ UNCHANGED output
       \/ Raise("summary failed")
    /\ UNCHANGED <<input_file, raw_data, model, trainerVars, df, columns, clock, features_df,
                   prev_features_df, wallet_features, raw_scores, calibrated_scores,
                   results>>

Next ==
    EngineerFeatures \/ TrainOrLoadModel \/ ScoreWallets \/ SaveResults \/ LogSummary

Spec == Init /\ [][Next]_vars

(***************************************************************************)
(* Repeated extraction: engineer_features run again on the unchanged       *)
(* population while the wall clock advances.                               *)
(***************************************************************************)
\* Another feature_engineer.engineer_features(processed_data) on the same data.
EngineerFeaturesAgain ==
    /\ pc = "engineered"
    /\ prev_features_df' = features_df
    /\ \E nows \in ClockReadings(Len(unique_wallets(df)), clock) :
          /\ features_df' = engineer_features(df, columns, nows)
          /\ clock' = ClockAfter(nows, clock)
    /\ UNCHANGED <<mainVars, trainerVars, df, columns, wallet_features, raw_scores,
                   calibrated_scores, results, pc>>

\* A day passes on the wall clock between two extractions.
Tick ==
    /\ pc = "engineered"
    /\ clock < Now0 + MaxTicks * Day
    /\ clock' = clock + Day
    /\ UNCHANGED <<mainVars, trainerVars, df, columns, features_df, prev_features_df, wallet_features,
                   raw_scores, calibrated_scores, results, pc>>

NextRepeat == EngineerFeatures \/ EngineerFeaturesAgain \/ Tick

RepeatKinds == {<<"deposit", 1>>, <<"borrow", 2>>}

\* Populations of deposits and borrows, the wall clock on its first day.
InitRepeat == InitPopulation(RepeatKinds, Now0)

SpecRepeat == InitRepeat /\ [][NextRepeat]_vars

(***************************************************************************)
(* Claims about the calibrator and the tier ladder.                        *)
(***************************************************************************)

\* C1: for every non-empty population of raw scores, _calibrate_scores returns
\* one score per account and every calibrated score lies in [0, 1000].
C1_ScoresInRange ==
    pc = "calibrated" /\ raw_scores # <<>> =>
        /\ DOMAIN calibrated_scores = DOMAIN raw_scores
        /\ \A i \in DOMAIN calibrated_scores :
              0 <= calibrated_scores[i] /\ calibrated_scores[i] <= 1000

\* A calibrated population of three distinct raw scores: both ends of the
\* range and a score strictly inside it are produced.
C1_Witness ==
    /\ pc = "calibrated"
    /\ Cardinality(Range(raw_scores)) >= 3
    /\ \E i, j, k \in DOMAIN calibrated_scores :
          /\ calibrated_scores[i] = 0
          /\ calibrated_scores[j] = 1000
          /\ 0 < calibrated_scores[k] /\ calibrated_scores[k] < 1000

Tiers ==
    {"Excellent", "Very Good", "Good", "Fair", "Poor", "Very Poor", "Unacceptable"}

\* The scores of a tier, as a closed interval of [0, 1000].
TierLow(t) ==
    CASE t = "Excellent" -> 900 [] t = "Very Good" -> 800 [] t = "Good" -> 700
      [] t = "Fair" -> 600 [] t = "Poor" -> 500 [] t = "Very Poor" -> 400
      [] t = "Unacceptable" -> 0

TierHigh(t) ==
    CASE t = "Excellent" -> 1000 [] t = "Very Good" -> 899 [] t = "Good" -> 799
      [] t = "Fair" -> 699 [] t = "Poor" -> 599 [] t = "Very Poor" -> 499
      [] t = "Unacceptable" -> 399

\* C2: every score in [0, 1000] gets exactly one of the seven tiers, the one
\* whose interval [lower bound, next lower bound) holds it; the boundary values
\* 900, 800, 700, 600, 500, 400 belong to the upper tier, and 950, 850, 750,
\* 650, 550, 450, 100 get Excellent, Very Good, Good, Fair, Poor, Very Poor,
\* Unacceptable.
C2_TiersPartition ==
    pc = "scored" =>
        \A i \in DOMAIN results :
            LET s == results[i].credit_score
                c == results[i].risk_category
            IN  /\ c \in Tiers
                /\ \A t \in Tiers : (c = t) <=> (TierLow(t) <= s /\ s <= TierHigh(t))
                /\ (s = 950 => c = "Excellent") /\ (s = 850 => c = "Very Good")
                /\ (s = 750 => c = "Good") /\ (s = 650 => c = "Fair")
                /\ (s = 550 => c = "Poor") /\ (s = 450 => c = "Very Poor")
                /\ (s = 100 => c = "Unacceptable")

\* The boundary score 900 has been assigned its tier, the upper one.
C2_Witness ==
    /\ pc = "scored"
    /\ results[1].credit_score = 900
    /\ results[1].risk_category = "Excellent"

\* C3: when all raw scores of a non-empty population are identical, every
\* account gets the same calibrated score, a number in [0, 1000].
C3_DegenerateEqual ==
    pc = "calibrated" /\ raw_scores # <<>> /\ Cardinality(Range(raw_scores)) = 1 =>
        /\ DOMAIN calibrated_scores = DOMAIN raw_scores
        /\ \A i, j \in DOMAIN calibrated_scores :
              /\ calibrated_scores[i] = calibrated_scores[j]
              /\ calibrated_scores[i] \in 0..1000

\* A calibrated population of several accounts that all hold one raw score.
C3_Witness ==
    /\ pc = "calibrated"
    /\ Len(raw_scores) >= 3
    /\ Cardinality(Range(raw_scores)) = 1
    /\ Len(calibrated_scores) = Len(raw_scores)

(***************************************************************************)
(* Claims about the feature extractor and the population.                  *)
(***************************************************************************)
WalletsOf(d) == Range(Col(d, "wallet_address"))

RowsOf(d, w) == {i \in DOMAIN d : d[i].wallet_address = w}

\* C4: every account with an event in the input of engineer_features appears
\* exactly once in the feature records (and no other account does), and every
\* account of the feature records appears exactly once in the result of
\* score_wallets (and no other account does).
C4_AccountsOnce ==
    /\ pc \in {"engineered", "scored"} =>
          /\ \A w \in WalletsOf(df) : Cardinality(RowsOf(features_df, w)) = 1
          /\ WalletsOf(features_df) = WalletsOf(df)
    /\ pc = "scored" =>
          /\ \A w \in WalletsOf(features_df) : Cardinality(RowsOf(results, w)) = 1
          /\ WalletsOf(results) = WalletsOf(features_df)

\* Two accounts, one of them with several events, have been scored.
C4_Witness ==
    /\ pc = "scored"
    /\ Cardinality(WalletsOf(df)) = 2
    /\ Len(df) > 2
    /\ Len(results) = 2

FeatureNames ==
    {"total_transactions", "unique_days_active",
     "deposit_count", "deposit_ratio", "borrow_count", "borrow_ratio",
     "repay_count", "repay_ratio", "redeemunderlying_count", "redeemunderlying_ratio",
     "liquidationcall_count", "liquidationcall_ratio",
     "total_amount", "avg_amount", "median_amount", "std_amount", "min_amount",
     "max_amount", "amount_cv",
     "avg_time_between_transactions", "std_time_between_transactions",
     "min_time_between_transactions", "max_time_between_transactions",
     "activity_consistency", "max_daily_transactions", "avg_daily_transactions",
     "activity_hours_spread", "most_active_hour",
     "liquidation_count", "liquidation_ratio", "days_since_last_liquidation",
     "total_borrowed", "total_repaid", "repayment_ratio", "outstanding_debt",
     "leverage_ratio", "deposit_to_borrow_ratio",
     "unique_assets", "asset_concentration", "asset_diversity_score",
     "position_changes", "deposit_withdrawal_ratio",
     "account_age_days", "transactions_per_day", "days_since_last_activity",
     "weekly_activity_variance", "monthly_activity_variance",
     "time_regularity_score", "most_common_interval_ratio",
     "amount_uniformity_score", "gas_optimization_score", "transaction_complexity"}

HasAction(d, a) == \E i \in DOMAIN d : d[i].action = a

\* C5: every feature record has the same fixed set of feature names, whatever
\* the account's events and the optional columns are.
C5_FixedFeatureNames ==
    pc = "extracted" => DOMAIN wallet_features = FeatureNames

\* A record extracted where the fallbacks apply: one event, no asset column,
\* no gas column, no borrow, no withdrawal, no liquidation.
C5_Witness ==
    /\ pc = "extracted"
    /\ Len(df) = 1
    /\ columns.asset = "absent" /\ columns.gas = "absent"
    /\ ~HasAction(df, "borrow") /\ ~HasAction(df, "redeemunderlying")
    /\ ~HasAction(df, "liquidationcall")
    /\ wallet_features # <<>>

InfiniteSentinelNames == {"deposit_to_borrow_ratio", "deposit_withdrawal_ratio"}

\* C6: every value of a feature record is a defined finite number, except
\* deposit_to_borrow_ratio and deposit_withdrawal_ratio, which may be infinite.
C6_AllValuesFinite ==
    pc = "extracted" =>
        \A name \in DOMAIN wallet_features :
            \/ IsFinite(wallet_features[name])
            \/ name \in InfiniteSentinelNames /\ wallet_features[name].k = "inf"

\* C7: for an account with exactly one event the gap features and the
\* regularity score are 0 and the account age is exactly 1 day.
C7_SingleEvent ==
    pc = "extracted" /\ Len(df) = 1 =>
        /\ wallet_features.avg_time_between_transactions = Num(0)
        /\ wallet_features.std_time_between_transactions = Num(0)
        /\ wallet_features.min_time_between_transactions = Num(0)
        /\ wallet_features.max_time_between_transactions = Num(0)
        /\ wallet_features.time_regularity_score = Num(0)
        /\ wallet_features.account_age_days = Num(1)

\* The record of an account with exactly one event has been extracted.
C7_Witness ==
    /\ pc = "extracted"
    /\ Len(df) = 1
    /\ wallet_features.total_transactions = Num(1)

\* C8: for an account with no borrow event repayment_ratio is 1 and
\* leverage_ratio is 0, whatever its deposits and repays are.
C8_NoBorrow ==
    pc = "extracted" /\ ~HasAction(df, "borrow") =>
        /\ wallet_features.repayment_ratio = Num(1)
        /\ wallet_features.leverage_ratio = Num(0)

\* The record of an account that deposited and repaid but never borrowed.
C8_Witness ==
    /\ pc = "extracted"
    /\ ~HasAction(df, "borrow")
    /\ HasAction(df, "repay") /\ HasAction(df, "deposit")
    /\ wallet_features.total_repaid.n > 0

\* C9: two runs of the extractor on the same unchanged events give records
\* that agree on every field other than days_since_last_activity.
C9_RepeatableExtraction ==
    prev_features_df # <<>> =>
        /\ DOMAIN prev_features_df = DOMAIN features_df
        /\ \A i \in DOMAIN features_df :
              /\ DOMAIN prev_features_df[i] = DOMAIN features_df[i]
              /\ \A name \in DOMAIN features_df[i] \ {"days_since_last_activity"} :
                    prev_features_df[i][name] = features_df[i][name]

\* Two runs on the same events, between which the wall clock advanced.
C9_Witness ==
    /\ prev_features_df # <<>>
    /\ Len(df) > 1
    /\ \E i \in DOMAIN features_df :
          prev_features_df[i].days_since_last_activity
              # features_df[i].days_since_last_activity

\* C10: days_since_last_activity does not depend on the wall clock: two
\* extractions of the same events, to which the caller passes the same
\* arguments, give the same days_since_last_activity.
C10_NoWallClock ==
    prev_features_df # <<>> =>
        \A i \in DOMAIN features_df :
            prev_features_df[i].days_since_last_activity
                = features_df[i].days_since_last_activity

(***************************************************************************)
(* Claims about the spread and the end points of the calibrated scores.    *)
(***************************************************************************)
\* The number of accounts of the population whose raw score is below x.
RankOf(raw, x) == Cardinality({j \in DOMAIN raw : raw[j] < x})

PairwiseDistinct(raw) == Cardinality(Range(raw)) = Len(raw)

\* C14: in a population of n >= 2 pairwise-distinct raw scores the account
\* with the k-th smallest raw score (k = 0..n-1) gets a calibrated score
\* within 10 points of 1000*k/(n-1)  (compared after multiplying by n-1).
C14_UniformSpread ==
    pc = "calibrated" /\ Len(raw_scores) >= 2 /\ PairwiseDistinct(raw_scores) =>
        \A i \in DOMAIN raw_scores :
            LET n == Len(raw_scores)
                k == RankOf(raw_scores, raw_scores[i])
            IN  Abs(calibrated_scores[i] * (n - 1) - 1000 * k) <= 10 * (n - 1)

\* Four pairwise-distinct raw scores have been calibrated and the second
\* smallest got a score that is not exactly 1000/3 (340, the next
\* percentile step above it).
C14_Witness ==
    /\ pc = "calibrated"
    /\ Len(raw_scores) = 4
    /\ PairwiseDistinct(raw_scores)
    /\ \E i \in DOMAIN raw_scores :
          /\ RankOf(raw_scores, raw_scores[i]) = 1
          /\ calibrated_scores[i] = 340

\* C18: in a population with at least two distinct raw scores every account
\* holding the smallest raw score gets 0 and every account holding the
\* largest raw score gets 1000, ties for the largest included.
C18_BothEndsReached ==
    pc = "calibrated" /\ Cardinality(Range(raw_scores)) >= 2 =>
        \A i \in DOMAIN raw_scores :
            /\ raw_scores[i] = SetMin(Range(raw_scores)) => calibrated_scores[i] = 0
            /\ raw_scores[i] = SetMax(Range(raw_scores)) => calibrated_scores[i] = 1000

(***************************************************************************)
(* Claims about the interval regularity and the asset diversity.           *)
(***************************************************************************)
\* The coefficient of variation of a sequence of gaps, std / mean: NaN when
\* the standard deviation is undefined (fewer than 2 gaps) or the mean is 0.
CoefficientOfVariation(gaps) ==
    LET mean == Mean(gaps)
    IN  IF mean.k = "fin" /\ mean.n > 0
        THEN DivBy(Std(gaps), mean.n, mean.d) ELSE NaN

\* C19: time_regularity_score is 0 for an account with fewer than 2 events
\* and 1 / (CV + 0.01) for an account with at least 2 events, CV being the
\* std / mean of the gaps between its timestamp-sorted events.
C19_TimeRegularity ==
    pc = "extracted" =>
        wallet_features.time_regularity_score =
            IF Len(df) < 2 THEN Num(0)
            ELSE RecipPlus001(CoefficientOfVariation(Diffs(SortInts(Col(df, "timestamp")))))

\* C20: asset_diversity_score = 1 - asset_concentration, asset_concentration
\* is the share of the account's events on its most-used asset, and an
\* account without asset information (no asset column, or no asset value on
\* any event) gets asset_concentration 1 and asset_diversity_score 0.
C20_AssetDiversity ==
    pc = "extracted" =>
        LET assets == IF columns.asset = "absent" THEN <<>>
                      ELSE Present(Col(df, "asset"), "NaN")
            concentration == wallet_features.asset_concentration
            diversity == wallet_features.asset_diversity_score
        IN  IF assets = <<>>
            THEN concentration = Num(1) /\ diversity = Num(0)
            ELSE /\ concentration = Frac(TopCount(assets), Len(df))
                 /\ diversity = Frac(Len(df) - TopCount(assets), Len(df))

(***************************************************************************)
(* model_trainer.py: the synthetic targets.  The frame handed to the       *)
(* trainer is features_df (its rows, records over feature_columns) and     *)
(* feature_columns (its columns, which an empty frame also has).  The      *)
(* values of the factor columns are rationals, NaN or inf here.            *)
(***************************************************************************)
\* (factor, max_points, max_value), max_value as the rational max_n/max_d
positive_factors ==
    <<[factor |-> "repayment_ratio", max_points |-> 200, max_n |-> 1, max_d |-> 1],
      [factor |-> "asset_diversity_score", max_points |-> 100, max_n |-> 1, max_d |-> 1],
      [factor |-> "account_age_days", max_points |-> 150, max_n |-> 365, max_d |-> 1],
      [factor |-> "transaction_complexity", max_points |-> 50, max_n |-> 1, max_d |-> 2]>>

\* (factor, max_penalty, penalty_threshold), in the same fields
negative_factors ==
    <<[factor |-> "liquidation_ratio", max_points |-> 0 - 300, max_n |-> 1, max_d |-> 10],
      [factor |-> "leverage_ratio", max_points |-> 0 - 200, max_n |-> 10, max_d |-> 1],
      [factor |-> "time_regularity_score", max_points |-> 0 - 100, max_n |-> 5, max_d |-> 1],
      [factor |-> "amount_uniformity_score", max_points |-> 0 - 150, max_n |-> 4, max_d |-> 5]>>

\* a + b for two rationals
AddFrac(a, b) == Frac(a.n * b.d + b.n * a.d, a.d * b.d)

\* A normalisation that is clipped at 0 only.
NormalizedClippedBelow(v, max_n, max_d) ==
    IF v.k = "inf" THEN Num(1)
    ELSE LET q == Frac(v.n * max_d, v.d * max_n)
         IN  IF q.n < 0 THEN Num(0) ELSE q

\* np.clip(values / max_value, 0, 1) for a value that is a rational or inf
\* and max_value = max_n/max_d > 0
normalized(v, max_n, max_d) ==
    IF v.k = "inf" THEN Num(1)
    ELSE LET q == Frac(v.n * max_d, v.d * max_n)
         IN  IF q.n < 0 THEN Num(0) ELSE IF q.n > q.d THEN Num(1) ELSE q

\* scores += normalized * max_points, for each factor that is a column
RECURSIVE apply_factors(_, _, _, _)
apply_factors(score, row, cols, factors) ==
    IF factors = <<>> THEN score
    ELSE LET f == Head(factors)
             part == normalized(fillna(row[f.factor], Num(0)), f.max_n, f.max_d)
             next == IF f.factor \in cols
                     THEN AddFrac(score, Frac(part.n * f.max_points, part.d))
                     ELSE score
         IN  apply_factors(next, row, cols, Tail(factors))

\* A clip that enforces the lower bound only.
ClipScoresBelowOnly(score) == IF score.n < 0 THEN Num(0) ELSE score

\* scores = np.clip(scores, 0, 1000)
clip_scores(score) ==
    IF score.n < 0 THEN Num(0)
    ELSE IF score.n > 1000 * score.d THEN Num(1000) ELSE score

\* The score of a row before the noise is added.
base_score(row, cols) ==
    apply_factors(apply_factors(Num(500), row, cols, positive_factors),
                  row, cols, negative_factors)

\* ModelTrainer._create_synthetic_targets; draws is what
\* np.random.normal(0, 25, len(scores)) returns.
_create_synthetic_targets(features, cols, draws) ==
    [i \in DOMAIN features |->
        clip_scores(AddFrac(base_score(features[i], cols), Num(draws[i])))]

(***************************************************************************)
(* The trainer's target generation alone: a frame of feature rows, then    *)
(* _create_synthetic_targets, or _prepare_training_data which calls it.    *)
(***************************************************************************)
MaxTargets == 1    \* rows of the frame handed to the trainer
MaxNoise == 75     \* the noise draws are -MaxNoise, 0 and MaxNoise (3 sigma)

NoiseValues == {0 - MaxNoise, 0, MaxNoise}

Factors == Range(positive_factors) \cup Range(negative_factors)

FactorNames == {f.factor : f \in Factors}

\* The column sets of the frames: a full frame, one with a factor of each
\* sign, one with no factor column, and pd.DataFrame([]).
FrameColumnSets ==
    {FactorNames \cup {"wallet_address"},
     {"wallet_address", "repayment_ratio", "liquidation_ratio"},
     {"wallet_address"},
     {}}

\* The values a factor column takes, relative to the factor's max_value.
Levels == {"nan", "negative", "zero", "half", "twice", "inf"}

LevelValue(level, f) ==
    CASE level = "nan" -> NaN
      [] level = "negative" -> Frac(0 - f.max_n, f.max_d)
      [] level = "zero" -> Num(0)
      [] level = "half" -> Frac(f.max_n, 2 * f.max_d)
      [] level = "twice" -> Frac(2 * f.max_n, f.max_d)
      [] level = "inf" -> Inf

\* A row whose positive factors are at one level and whose negative
\* factors are at another.
TrainerRow(cols, wallet, positive_level, negative_level) ==
    [c \in cols |->
        IF c = "wallet_address" THEN wallet
        ELSE LET f == CHOOSE g \in Factors : g.factor = c
             IN  LevelValue(IF f.max_points > 0 THEN positive_level
                            ELSE negative_level, f)]

InitTargets ==
    /\ \E n \in 0..MaxTargets, cols \in FrameColumnSets :
       \E pl \in [1..n -> Levels], nl \in [1..n -> Levels] :
          /\ features_df = [i \in 1..n |->
                               TrainerRow(cols, IF i = 1 THEN "0xa" ELSE "0xb",
                                          pl[i], nl[i])]
          /\ feature_columns = cols
    /\ pc = "features"
    /\ noise = <<>> /\ train_X = <<>> /\ train_y = <<>>
    /\ df = <<>>
    /\ columns = [asset |-> "absent", gas |-> "absent"]
    /\ clock = 0
    /\ prev_features_df = <<>>
    /\ wallet_features = <<>>
    /\ raw_scores = <<>>
    /\ calibrated_scores = <<>>
    /\ results = <<>>
    /\ MainIdle

\* y = self._create_synthetic_targets(features_df)
CreateSyntheticTargets ==
    /\ pc = "features"
    /\ \E draws \in [DOMAIN features_df -> NoiseValues] :
          /\ noise' = draws
          /\ train_y' = _create_synthetic_targets(features_df, feature_columns, draws)
    /\ pc' = "targets"
    /\ UNCHANGED <<mainVars, df, columns, clock, features_df,
                   prev_features_df, wallet_features, raw_scores,
                   calibrated_scores, results, feature_columns, train_X>>

\* X, y = self._prepare_training_data(features_df); the drop of a column
\* the frame does not have raises KeyError.
PrepareTrainingData ==
    /\ pc = "features"
    /\ IF "wallet_address" \in feature_columns
       THEN /\ train_X' = fill_missing(features_df, feature_columns)
            /\ \E draws \in [DOMAIN features_df -> NoiseValues] :
                  /\ noise' = draws
                  /\ train_y' = _create_synthetic_targets(features_df, feature_columns, draws)
            /\ pc' = "prepared"
       ELSE /\ pc' = "error"
            /\ UNCHANGED <<noise, train_X, train_y>>
    /\ UNCHANGED <<mainVars, df, columns, clock, features_df,
                   prev_features_df, wallet_features, raw_scores,
                   calibrated_scores, results, feature_columns>>

SpecTargets == InitTargets /\ [][CreateSyntheticTargets \/ PrepareTrainingData]_vars

(***************************************************************************)
(* Claims about the synthetic targets.                                     *)
(***************************************************************************)
\* C11: every synthetic target lies in [0, 1000], one per row, whatever the
\* factor columns of the frame, their values (NaN and inf included) and the
\* noise are.
C11_TargetsInRange ==
    pc \in {"targets", "prepared"} =>
        /\ DOMAIN train_y = DOMAIN features_df
        /\ \A i \in DOMAIN train_y :
              /\ train_y[i].k = "fin"
              /\ 0 <= train_y[i].n
              /\ train_y[i].n <= 1000 * train_y[i].d

\* A row whose score is 1000 before the noise (all factor columns present,
\* the positive factors at inf, the negative ones at NaN) drew the noise
\* +MaxNoise and its target was clipped to 1000.
C11_Witness ==
    /\ pc = "targets"
    /\ \E i \in DOMAIN train_y :
          /\ FactorNames \subseteq feature_columns
          /\ features_df[i].repayment_ratio = Inf
          /\ features_df[i].liquidation_ratio = NaN
          /\ base_score(features_df[i], feature_columns) = Num(1000)
          /\ noise[i] = MaxNoise
          /\ train_y[i] = Num(1000)

(***************************************************************************)
(* data_processor.py.  A raw record (an element of the JSON list) has the  *)
(* fields wallet_address, action, amount, timestamp, asset, gas_used and   *)
(* keys, the set of those the record really has (the value of a field that *)
(* is no key is never read).  An amount is m * 10^e; a                     *)
(* timestamp is the text of a date [form "iso", day of 2023, hour] or a    *)
(* text that is no date [form "text"].  A processed row is an event of the *)
(* feature extractor plus index, the label of its record in raw_data.      *)
(***************************************************************************)
\* The timestamp pd.to_datetime(errors='coerce') gives an unparseable text,
\* and the hour of such a row.
NaT == 0 - 1

NoHour == 0 - 1

required_fields == {"wallet_address", "action", "amount", "timestamp"}

valid_actions == Range(Actions)

RECURSIVE Pow10(_)
Pow10(e) == IF e <= 0 THEN 1 ELSE 10 * Pow10(e - 1)

\* pd.DataFrame(raw_data): a row per record, labelled by its position.
RawFrame(raw) == [i \in DOMAIN raw |-> [index |-> i] @@ raw[i]]

\* A key is a column of the frame when some record has it.
HasColumn(raw, f) == \E i \in DOMAIN raw : f \in raw[i].keys

\* df['amount'] > 0
amount_positive(a) == a.m > 0

\* df['amount'] >= min_amount_threshold, the threshold being 1e-10:
\* m * 10^e >= 10^-10 is m >= 10^(-10-e), which for e >= -10 is m >= 1.
amount_above_threshold(a) ==
    IF a.e + 10 >= 0 THEN a.m >= 1
    ELSE a.m >= Pow10(0 - (a.e + 10))

\* Series.str.lower() on the wallet addresses
str_lower(w) == IF w = "0xA" THEN "0xa" ELSE IF w = "0xB" THEN "0xb" ELSE w

\* DataProcessor._validate_and_clean
_validate_and_clean(rows) ==
    LET complete == SelectSeq(rows, LAMBDA r : required_fields \subseteq r.keys)
        known == SelectSeq(complete, LAMBDA r : r.action \in valid_actions)
        positive == SelectSeq(known, LAMBDA r : amount_positive(r.amount))
        large == SelectSeq(positive, LAMBDA r : amount_above_threshold(r.amount))
    IN  [i \in DOMAIN large |->
            [large[i] EXCEPT !.wallet_address = str_lower(large[i].wallet_address)]]

\* pd.to_datetime(text, errors='coerce'), in seconds since 2023-01-01
to_datetime(t) ==
    IF t.form = "iso" THEN (t.day - 1) * Day + t.hour * 3600 ELSE NaT

\* pd.to_numeric of an amount that passed the threshold (an integer here)
to_numeric(a) == a.m * Pow10(a.e)

\* DataProcessor._convert_types
_convert_types(rows) ==
    [i \in DOMAIN rows |->
        [rows[i] EXCEPT !.timestamp = to_datetime(rows[i].timestamp),
                        !.amount = to_numeric(rows[i].amount),
                        !.asset = IF "asset" \in rows[i].keys THEN rows[i].asset
                                  ELSE "NaN",
                        !.gas_used = IF "gas_used" \in rows[i].keys
                                     THEN rows[i].gas_used ELSE NoGas]]

\* The order of sort_values(['wallet_address', 'timestamp']): by wallet,
\* then by timestamp with NaT last.
RowBefore(a, b) ==
    \/ WalletRank(a.wallet_address) < WalletRank(b.wallet_address)
    \/ /\ a.wallet_address = b.wallet_address
       /\ a.timestamp # NaT
       /\ b.timestamp = NaT \/ a.timestamp < b.timestamp

\* The sort is stable: a row goes behind the rows it does not precede.
RECURSIVE InsertRow(_, _)
InsertRow(s, x) ==
    IF s = <<>> THEN <<x>>
    ELSE IF RowBefore(x, Head(s)) THEN <<x>> \o s
    ELSE <<Head(s)>> \o InsertRow(Tail(s), x)

RECURSIVE SortRows(_)
SortRows(s) ==
    IF s = <<>> THEN <<>>
    ELSE InsertRow(SortRows(SubSeq(s, 1, Len(s) - 1)), s[Len(s)])

\* DataProcessor._add_derived_fields: the hour, then the sort.
_add_derived_fields(rows) ==
    SortRows([i \in DOMAIN rows |->
                 [hour |-> IF rows[i].timestamp = NaT THEN NoHour
                           ELSE HourOf(rows[i].timestamp)] @@ rows[i]])

\* dropna(subset=required_fields) raises KeyError when a required field is
\* no column of the frame, as for an empty list of records.
process_raises(raw) == \E f \in required_fields : ~HasColumn(raw, f)

\* DataProcessor.process_transactions: the processed rows
process_transactions(raw) ==
    _add_derived_fields(_convert_types(_validate_and_clean(RawFrame(raw))))

\* The optional columns of the processed frame: asset is categorical, its
\* categories the assets of the rows that were kept.
processed_columns(raw) ==
    [asset |-> IF HasColumn(raw, "asset") THEN "category" ELSE "absent",
     gas |-> IF HasColumn(raw, "gas_used") THEN "present" ELSE "absent",
     asset_categories |->
         IF HasColumn(raw, "asset")
         THEN Range(Col(process_transactions(raw), "asset")) \ {"NaN"} ELSE {}]

(***************************************************************************)
(* process_transactions alone: a list of raw records, then the processed   *)
(* frame.                                                                  *)
(***************************************************************************)
MaxRawEvents == 2  \* records of a raw transaction list

\* A deposit of 1 by 0xa on Mon 2023-01-02 10:00, without asset and gas.
GoodRecord ==
    [keys |-> required_fields, wallet_address |-> "0xa", action |-> "deposit",
     amount |-> [m |-> 1, e |-> 0],
     timestamp |-> [form |-> "iso", day |-> 2, hour |-> 10],
     asset |-> "NaN", gas_used |-> NoGas]

\* A borrow of 2 USDC by 0xb on Tue 2023-02-07 10:00.
OtherRecord ==
    [keys |-> required_fields \cup {"asset", "gas_used"}, wallet_address |-> "0xb",
     action |-> "borrow", amount |-> [m |-> 2, e |-> 0],
     timestamp |-> [form |-> "iso", day |-> 38, hour |-> 10],
     asset |-> "USDC", gas_used |-> 21000]

Without(r, f) == [r EXCEPT !.keys = @ \ {f}]

\* Records whose timestamp, when they have one, is the text of a date.
DatedRecords ==
    {GoodRecord, OtherRecord,
     [GoodRecord EXCEPT !.wallet_address = "0xA"],
     [GoodRecord EXCEPT !.action = "swap"],
     [GoodRecord EXCEPT !.amount = [m |-> 0, e |-> 0]],
     [GoodRecord EXCEPT !.amount = [m |-> 0 - 1, e |-> 0]],
     [GoodRecord EXCEPT !.amount = [m |-> 5, e |-> 0 - 11]]}
    \cup {Without(GoodRecord, f) : f \in required_fields}

\* ... and one whose timestamp is a text that is no date.
RawRecords ==
    DatedRecords \cup
    {[GoodRecord EXCEPT !.timestamp = [form |-> "text", day |-> 0, hour |-> 0]]}

RawLists(records) == UNION {[1..n -> records] : n \in 0..MaxRawEvents}

InitProcess ==
    /\ raw_data \in RawLists(RawRecords)
    /\ input_file = raw_data
    /\ model = NoModel
    /\ pc = "loaded"
    /\ df = <<>>
    /\ columns = [asset |-> "absent", gas |-> "absent", asset_categories |-> {}]
    /\ clock = Now0
    /\ features_df = <<>>
    /\ prev_features_df = <<>>
    /\ wallet_features = <<>>
    /\ raw_scores = <<>>
    /\ calibrated_scores = <<>>
    /\ results = <<>>
    /\ output = NotWritten
    /\ exit_status = Running
    /\ TrainerIdle

\* processed_data = data_processor.process_transactions(transactions_data)
ProcessTransactions ==
    /\ pc = "loaded"
    /\ IF process_raises(raw_data)
       THEN /\ Raise("process failed")
            /\ UNCHANGED <<df, columns>>
       ELSE /\ df' = process_transactions(raw_data)
            /\ columns' = processed_columns(raw_data)
            /\ pc' = "processed"
            /\ UNCHANGED <<output, exit_status>>
    /\ UNCHANGED <<input_file, raw_data, model, trainerVars, clock, features_df, prev_features_df,
                   wallet_features, raw_scores, calibrated_scores, results>>

SpecProcess == InitProcess /\ [][ProcessTransactions]_vars

\* A record is well formed when it names an account, has an action of the
\* five known ones, a positive amount and a timestamp that is a date.
WellFormed(r) ==
    /\ required_fields \subseteq r.keys
    /\ r.action \in valid_actions
    /\ r.amount.m > 0
    /\ r.timestamp.form = "iso"

\* C15: the processed frame holds exactly the well-formed records of the
\* raw list: every well-formed record is kept and every other one is
\* dropped.  Violated: a record whose timestamp is no date is kept with
\* the timestamp NaT (rows are dropped before the conversion, never
\* after), and a well-formed record with an amount below 1e-10 is dropped.
C15_ExactlyWellFormed ==
    pc = "processed" =>
        {df[i].index : i \in DOMAIN df}
            = {i \in DOMAIN raw_data : WellFormed(raw_data[i])}

(***************************************************************************)
(* main() from its start: the transaction file is read, then the stages    *)
(* above.  The records of the file have timestamps that are dates.         *)
(***************************************************************************)
InitRun(files, start) ==
    /\ pc = "start"
    /\ input_file \in files
    /\ raw_data = <<>>
    /\ model = NoModel
    /\ df = <<>>
    /\ columns = [asset |-> "absent", gas |-> "absent", asset_categories |-> {}]
    /\ clock = start
    /\ features_df = <<>>
    /\ prev_features_df = <<>>
    /\ wallet_features = <<>>
    /\ raw_scores = <<>>
    /\ calibrated_scores = <<>>
    /\ results = <<>>
    /\ output = NotWritten
    /\ exit_status = Running
    /\ TrainerIdle

\* A file whose population can be scored: every feature column has a
\* number for some account.  0xa deposits and, on another day, withdraws;
\* 0xb borrows once.
ScorableFile ==
    <<GoodRecord,
      [GoodRecord EXCEPT !.action = "redeemunderlying",
                         !.timestamp = [form |-> "iso", day |-> 38, hour |-> 10]],
      OtherRecord>>

InitMain == InitRun(RawLists(DatedRecords) \cup {ScorableFile}, Now0)

\* with open(args.input, 'r') as f: transactions_data = json.load(f);
\* raises when the file is missing or is no JSON.
LoadData ==
    /\ pc = "start"
    /\ \/ /\ raw_data' = input_file
          /\ pc' = "loaded"
          /\ UNCHANGED <<output, exit_status>>
       \/ /\ Raise("load failed")
          /\ UNCHANGED raw_data
    /\ UNCHANGED <<input_file, model, trainerVars, df, columns, clock, features_df,
                   prev_features_df, wallet_features, raw_scores, calibrated_scores,
                   results>>

NextMain == LoadData \/ ProcessTransactions \/ Next

SpecMain == InitMain /\ [][NextMain]_vars

\* The stages the run can fail in before the scores exist.
FailedStages ==
    {"load failed", "process failed", "engineer failed", "model failed", "score failed"}

\* C16: when a stage (load, process, feature extraction, train or load
\* model, score) raises, the run ends with exit status 1 and no output
\* file has been written; an output file that is written holds the score
\* record of every account of the population, never of a part of it.
C16_AbortWithoutOutput ==
    /\ pc \in FailedStages => exit_status = 1 /\ output = NotWritten
    /\ output.written =>
          /\ pc \in {"saved", "done", "summary failed"}
          /\ output.rows = results
          /\ Len(output.rows) = Len(features_df)
          /\ WalletsOf(output.rows) = WalletsOf(df)

\* C16 witness: the model stage raised for a population of two accounts
\* (training needs five), after load, processing and feature extraction
\* had completed; the run ended with status 1 and without output.
C16_Witness ==
    /\ pc = "model failed"
    /\ Len(features_df) = 2
    /\ exit_status = 1
    /\ output = NotWritten

\* C12: a population of zero accounts never gets score records: the run
\* does not get past the scoring stage, it fails there at the latest, ends
\* with exit status 1 and writes no output.
C12_EmptyPopulationFails ==
    df = <<>> =>
        /\ pc \notin {"scored", "saved", "done", "save failed", "summary failed"}
        /\ ~output.written
        /\ exit_status # 0
        /\ pc \notin {"start", "loaded", "processed", "engineered", "model_ready"}
               => exit_status = 1

\* C12 witness: every record of the file was dropped by the processing,
\* feature extraction gave the frame of zero accounts, a model was loaded
\* and the scoring stage raised.
C12_Witness ==
    /\ pc = "score failed"
    /\ raw_data # <<>>
    /\ df = <<>>
    /\ features_df = <<>>
    /\ exit_status = 1

\* The records of the file that name the account w.
RecordsOf(raw, w) ==
    SelectSeq(raw, LAMBDA r : "wallet_address" \in r.keys
                              /\ str_lower(r.wallet_address) = w)

\* The feature record of the account w when the file holds the records of
\* w alone.
ExtractedAlone(raw, w, now) ==
    LET own == RecordsOf(raw, w)
    IN  engineer_features(process_transactions(own), processed_columns(own), <<now>>)[1]

\* C17: engineer_features leaves the event population as it was before
\* the call, and the record extracted for an account is the same whether
\* or not the records of other accounts are extracted with it.  Violated
\* in its second part: the asset and gas columns exist, and the asset
\* categories are counted, for the population as a whole, so an account
\* without asset data gets other portfolio features once another account
\* has asset data.
C17_NoSideEffectNoCrossAccount ==
    pc = "engineered" =>
        /\ df = process_transactions(raw_data)
        /\ \A i \in DOMAIN features_df :
              \E now \in ClockValues :
                  features_df[i]
                      = ExtractedAlone(raw_data, features_df[i].wallet_address, now)

\* The sum of the amounts of the events of d with action a.
AmountOf(d, a) == Sum(Col(WithAction(d, a), "amount"))

\* C21: deposit_to_borrow_ratio is the infinite sentinel exactly when the
\* account borrowed nothing and else the finite deposited / borrowed;
\* deposit_withdrawal_ratio is the infinite sentinel exactly when the
\* account has no withdrawal and else the finite deposits / withdrawals;
\* no other feature is ever infinite.
C21_InfiniteSentinels ==
    pc = "extracted" =>
        LET borrowed == AmountOf(df, "borrow")
            deposited == AmountOf(df, "deposit")
            deposits == Len(WithAction(df, "deposit"))
            withdrawals == Len(WithAction(df, "redeemunderlying"))
            to_borrow == wallet_features.deposit_to_borrow_ratio
            to_withdrawal == wallet_features.deposit_withdrawal_ratio
        IN  /\ (to_borrow.k = "inf") <=> (borrowed = 0)
            /\ borrowed # 0 =>
                  to_borrow.k = "fin" /\ to_borrow.n * borrowed = deposited * to_borrow.d
            /\ (to_withdrawal.k = "inf") <=> (withdrawals = 0)
            /\ withdrawals # 0 =>
                  /\ to_withdrawal.k = "fin"
                  /\ to_withdrawal.n * withdrawals = deposits * to_withdrawal.d
            /\ \A name \in DOMAIN wallet_features \ InfiniteSentinelNames :
                  wallet_features[name].k # "inf"

\* C21 witness: an account that deposited, borrowed and never withdrew:
\* one ratio is finite and positive, the other is the sentinel.
C21_Witness ==
    /\ pc = "extracted"
    /\ HasAction(df, "borrow") /\ HasAction(df, "deposit")
    /\ ~HasAction(df, "redeemunderlying")
    /\ wallet_features.deposit_to_borrow_ratio.k = "fin"
    /\ wallet_features.deposit_to_borrow_ratio.n > 0
    /\ wallet_features.deposit_withdrawal_ratio = Inf

(***************************************************************************)
(* The extractor on long histories: the events of one account over 27      *)
(* years, then _extract_wallet_features.                                   *)
(***************************************************************************)
LongKinds == {<<"deposit", 1>>, <<"redeemunderlying", 1>>, <<"liquidationcall", 2>>}

\* Mon 2023-01-02 10:00, Tue 2023-02-07 10:00 and Thu 2050-05-19 10:00, the
\* last one 9999 days after the first.
LongTimes == {Day + 10 * 3600, 37 * Day + 10 * 3600, 10000 * Day + 10 * 3600}

\* The wall clock at the start of a run: Sun 2050-05-22 12:00
LateNow == 10003 * Day + 12 * 3600

InitLongHistory ==
    /\ \E n \in 1..MaxEvents, cfg \in ColumnConfigs :
       \E kinds \in [1..n -> LongKinds], tss \in [1..n -> LongTimes] :
          /\ \A i \in 1..(n - 1) : tss[i] <= tss[i + 1]
          /\ df = [i \in 1..n |-> Event("0xa", kinds[i][1], kinds[i][2], tss[i], cfg, i)]
          /\ columns = ColumnsOf(df, cfg)
    /\ clock = LateNow
    /\ pc = "processed"
    /\ features_df = <<>>
    /\ prev_features_df = <<>>
    /\ wallet_features = <<>>
    /\ raw_scores = <<>>
    /\ calibrated_scores = <<>>
    /\ results = <<>>
    /\ MainIdle /\ TrainerIdle

SpecLongHistory == InitLongHistory /\ [][Extract]_vars

\* What C22 says of an account with a liquidation: the value is the whole
\* number of days, >= 0, from the most recent liquidation to the account's
\* last event, and liquidation_count and liquidation_ratio
\* = liquidation_count / total event count are > 0.
LiquidatedAccount ==
    LET liquidations == WithAction(df, "liquidationcall")
        since == wallet_features.days_since_last_liquidation
        elapsed == SetMax(Range(Col(df, "timestamp")))
                   - SetMax(Range(Col(liquidations, "timestamp")))
    IN  /\ since.k = "fin" /\ since.d = 1 /\ since.n >= 0
        /\ since.n * Day <= elapsed
        /\ elapsed - since.n * Day < Day
        /\ wallet_features.liquidation_count = Num(Len(liquidations))
        /\ wallet_features.liquidation_count.n > 0
        /\ wallet_features.liquidation_ratio = Frac(Len(liquidations), Len(df))
        /\ wallet_features.liquidation_ratio.n > 0

\* C22 as stated: days_since_last_liquidation is 9999 exactly when the
\* account has no liquidation; with one it is the whole number of days,
\* >= 0, from the most recent liquidation, and liquidation_count and
\* liquidation_ratio are > 0.  Violated in its "exactly when": an account
\* whose last event is 9999 days after its most recent liquidation has the
\* value 9999 too.
C22_SentinelExactly ==
    pc = "extracted" =>
        LET liquidations == WithAction(df, "liquidationcall")
        IN  /\ (wallet_features.days_since_last_liquidation = Num(9999))
                   <=> (liquidations = <<>>)
            /\ liquidations # <<>> => LiquidatedAccount

\* C22, amended: days_since_last_liquidation is 9999 whenever the account
\* has no liquidation; with one it is the whole number of days, >= 0, from
\* the most recent liquidation to the account's last event (9999 exactly
\* when that is 9999 days), and liquidation_count and liquidation_ratio
\* are > 0; so an account has no liquidation exactly when its value is 9999
\* and its liquidation_count is 0.
C22_LiquidationSentinel ==
    pc = "extracted" =>
        LET liquidations == WithAction(df, "liquidationcall")
            since == wallet_features.days_since_last_liquidation
        IN  /\ liquidations = <<>> => since = Num(9999)
            /\ liquidations # <<>> => LiquidatedAccount
            /\ (liquidations = <<>>)
                   <=> (since = Num(9999) /\ wallet_features.liquidation_count = Num(0))

\* C22 witness: an account that was liquidated and whose last event, not a
\* liquidation, is 9999 days later: the value is 9999 with a liquidation
\* count above 0.
C22_Witness ==
    /\ pc = "extracted"
    /\ HasAction(df, "liquidationcall")
    /\ df[Len(df)].action # "liquidationcall"
    /\ wallet_features.days_since_last_liquidation = Num(9999)
    /\ wallet_features.liquidation_count.n > 0
    /\ wallet_features.liquidation_ratio.d > 1

\* C23: for every non-empty event sequence of an account account_age_days
\* is the number of whole days between its first and last event plus 1,
\* hence at least 1, and transactions_per_day is the event count divided
\* by account_age_days.
C23_AccountAge ==
    pc = "extracted" =>
        LET timestamps == Range(Col(df, "timestamp"))
            span == SetMax(timestamps) - SetMin(timestamps)
            age == wallet_features.account_age_days
            per_day == wallet_features.transactions_per_day
        IN  /\ age.k = "fin" /\ age.d = 1 /\ age.n >= 1
            /\ (age.n - 1) * Day <= span /\ span < age.n * Day
            /\ per_day.k = "fin"
            /\ per_day.n * age.n = Len(df) * per_day.d

\* C23 witness: an account with three events over more than a month: the
\* age is 37 days and there are 3/37 transactions per day.
C23_Witness ==
    /\ pc = "extracted"
    /\ Len(df) = 3
    /\ wallet_features.account_age_days = Num(37)
    /\ wallet_features.transactions_per_day = Frac(3, 37)

\* clip(value / divisor, 0, 1) * points of one factor, stated directly: 0
\* for a missing value and up to the divisor's sign, all points from the
\* divisor on.
Contribution(row, cols, f) ==
    LET v == row[f.factor]
    IN  IF f.factor \notin cols \/ v.k = "nan" THEN Num(0)
        ELSE IF v.k = "inf" THEN Num(f.max_points)
        ELSE IF v.n <= 0 THEN Num(0)
        ELSE IF v.n * f.max_d >= v.d * f.max_n THEN Num(f.max_points)
        ELSE Frac(v.n * f.max_d * f.max_points, v.d * f.max_n)

RECURSIVE SumContributions(_, _, _)
SumContributions(row, cols, fs) ==
    IF fs = <<>> THEN Num(0)
    ELSE AddFrac(Contribution(row, cols, Head(fs)),
                 SumContributions(row, cols, Tail(fs)))

\* C24: before the noise the target of a row is 500 plus, for each factor,
\* its points times clip(value / divisor, 0, 1), a missing factor
\* contributing 0; it lies in [-250, 1000], does not decrease when the
\* value of a positive factor increases and does not increase when the
\* value of a negative (risk) factor increases; with noise 0 the target is
\* this value clipped at 0.  The value does not depend on the noise, so the
\* two monotonicity properties are evaluated on the rows drawn with noise 0.
C24_PreNoiseTarget ==
    pc \in {"targets", "prepared"} =>
        \A i \in DOMAIN features_df :
            LET row == features_df[i]
                base == base_score(row, feature_columns)
            IN  /\ base = AddFrac(Num(500),
                                  SumContributions(row, feature_columns,
                                      positive_factors \o negative_factors))
                /\ 0 - 250 * base.d <= base.n /\ base.n <= 1000 * base.d
                /\ noise[i] = 0 =>
                      train_y[i] = IF base.n < 0 THEN Num(0) ELSE base
                /\ \A f \in Factors, level \in Levels \ {"nan"} :
                      /\ noise[i] = 0
                      /\ f.factor \in feature_columns
                      /\ row[f.factor].k # "nan"
                      /\ ValueLE(row[f.factor], LevelValue(level, f))
                      => LET more == base_score(
                                 [row EXCEPT ![f.factor] = LevelValue(level, f)],
                                 feature_columns)
                         IN  IF f.max_points > 0 THEN ValueLE(base, more)
                             ELSE ValueLE(more, base)

\* C24 witness: a row of a full frame whose positive factors are at half
\* their divisor and whose risk factors are at twice their threshold: 500
\* + 250 - 750 = 0 before the noise, and the target with noise 0.
C24_Witness ==
    /\ pc = "targets"
    /\ FactorNames \subseteq feature_columns
    /\ \E i \in DOMAIN train_y :
          /\ features_df[i].repayment_ratio = Frac(1, 2)
          /\ features_df[i].leverage_ratio = Num(20)
          /\ base_score(features_df[i], feature_columns) = Num(0)
          /\ noise[i] = 0
          /\ train_y[i] = Num(0)

(***************************************************************************)
(* main() on populations small and large enough to train on: an empty      *)
(* file, files of one and two accounts, a file whose only record is        *)
(* dropped, the file of two accounts that can be scored, a file of cv      *)
(* accounts with one deposit each (a population without a borrow and a     *)
(* withdrawal) and a file of cv accounts that can be trained on: the two   *)
(* accounts of the scorable file and single deposits of the others.        *)
(***************************************************************************)
SingleDeposits == [i \in 1..cv |-> [GoodRecord EXCEPT !.wallet_address = WalletList[i]]]

TrainableFile == ScorableFile \o SubSeq(SingleDeposits, 3, cv)

StageFiles ==
    {<<>>, <<GoodRecord>>, <<GoodRecord, OtherRecord>>,
     <<[GoodRecord EXCEPT !.amount = [m |-> 0, e |-> 0]]>>,
     ScorableFile, SingleDeposits, TrainableFile}

\* The runs of the stage files, started on the last day.
InitStages == InitRun(StageFiles, LastNow)

SpecStages == InitStages /\ [][NextMain]_vars

\* The stages in the order main runs them, each with its failure.
StageSuccessors ==
    {<<"start", "loaded">>, <<"start", "load failed">>,
     <<"loaded", "processed">>, <<"loaded", "process failed">>,
     <<"processed", "engineered">>, <<"processed", "engineer failed">>,
     <<"engineered", "model_ready">>, <<"engineered", "model failed">>,
     <<"model_ready", "scored">>, <<"model_ready", "score failed">>,
     <<"scored", "saved">>, <<"scored", "save failed">>,
     <<"saved", "done">>, <<"saved", "summary failed">>}

Processed ==
    {"processed", "engineered", "model_ready", "scored", "saved", "done",
     "engineer failed", "model failed", "score failed", "save failed", "summary failed"}

Engineered ==
    {"engineered", "model_ready", "scored", "saved", "done",
     "model failed", "score failed", "save failed", "summary failed"}

ModelObtained ==
    {"model_ready", "scored", "saved", "done", "score failed", "save failed",
     "summary failed"}

Scored == {"scored", "saved", "done", "save failed", "summary failed"}

\* What the finished stages have produced in a state of a run.
StagesComplete ==
    /\ pc \in Processed => raw_data = input_file /\ df = process_transactions(raw_data)
    /\ pc \notin Engineered => features_df = <<>> /\ model = NoModel
    /\ pc \in Engineered =>
          \E nows \in ClockReadings(Len(unique_wallets(df)), LastNow) :
              /\ ClockAfter(nows, LastNow) = clock
              /\ features_df = engineer_features(df, columns, nows)
    /\ pc \in ModelObtained => model.kind \in {"trained", "loaded"}
    /\ pc \notin ModelObtained => model.kind = "none"
    /\ model.kind = "trained" =>
          /\ model.retrain \/ ~model.model_exists
          /\ model.targets = Len(features_df)
    /\ model.kind = "loaded" =>
          ~model.retrain /\ model.model_exists /\ model.targets = 0
    /\ model.targets > 0 => model.retrain \/ ~model.model_exists
    /\ pc \notin Scored =>
          raw_scores = <<>> /\ calibrated_scores = <<>> /\ results = <<>>
    /\ pc \in Scored =>
          /\ DOMAIN raw_scores = DOMAIN features_df
          /\ calibrated_scores = _calibrate_scores(raw_scores)
          /\ Len(results) = Len(features_df)
    /\ output.written => pc \in {"saved", "done", "summary failed"}

\* What a step of a run may do.
StageStep ==
    /\ pc' # pc => <<pc, pc'>> \in StageSuccessors
    /\ model'.targets # model.targets => pc = "engineered"
    /\ calibrated_scores' # calibrated_scores =>
          /\ pc = "model_ready" /\ pc' = "scored"
          /\ calibrated_scores = <<>>
          /\ DOMAIN raw_scores' = DOMAIN features_df

\* C25: the stages run in the order process, extract features, obtain the
\* model, score and calibrate, write the output, each on the whole
\* population before the next one starts; the model is trained, and
\* synthetic targets are generated, only when retraining was requested or
\* no model file exists, else it is loaded; no step from the scoring on
\* generates targets; the calibration runs once, on the raw scores of all
\* accounts.
C25_StageOrder == [](StagesComplete) /\ [][StageStep]_vars

\* C25 witness: no model file existed, a model was trained on the cv
\* accounts of the population (a target for each), all of them were
\* scored and the run ended after writing their scores.
C25_Witness ==
    /\ pc = "done"
    /\ model.kind = "trained" /\ ~model.retrain /\ ~model.model_exists
    /\ model.targets = cv
    /\ Len(output.rows) = cv
    /\ exit_status = 0

(***************************************************************************)
(* The preprocessing of the trainer and of the scorer: a frame of feature  *)
(* rows, the fills, then the scaler and the feature selector.              *)
(***************************************************************************)
MaxFrameRows == 2  \* rows of the frame handed to the preprocessing

PreprocessColumns == {"wallet_address", "deposit_to_borrow_ratio", "std_amount"}

\* The values of the columns: the sentinel or a ratio, NaN or a deviation.
PreprocessValues(c) ==
    IF c = "deposit_to_borrow_ratio" THEN {Inf, Num(1), Num(3)}
    ELSE {NaN, Num(0), Num(2)}

InitPreprocess ==
    /\ \E n \in 1..MaxFrameRows :
       \E ratios \in [1..n -> PreprocessValues("deposit_to_borrow_ratio")],
          deviations \in [1..n -> PreprocessValues("std_amount")] :
          features_df = [i \in 1..n |->
                            [c \in PreprocessColumns |->
                                IF c = "wallet_address" THEN WalletList[i]
                                ELSE IF c = "std_amount" THEN deviations[i]
                                ELSE ratios[i]]]
    /\ feature_columns = PreprocessColumns
    /\ pc = "features"
    /\ noise = <<>> /\ train_X = <<>> /\ train_y = <<>>
    /\ df = <<>>
    /\ columns = [asset |-> "absent", gas |-> "absent"]
    /\ clock = 0
    /\ prev_features_df = <<>>
    /\ wallet_features = <<>>
    /\ raw_scores = <<>>
    /\ calibrated_scores = <<>>
    /\ results = <<>>
    /\ MainIdle

\* train_model: X, y = self._prepare_training_data(features_df);
\* X_processed = self._preprocess_features(X)
TrainerPreprocess ==
    /\ pc = "features"
    /\ LET X == _preprocess_features(fill_missing(features_df, feature_columns))
       IN  /\ train_X' = X
           /\ pc' = IF selector_raises(X) THEN "train rejected" ELSE "train preprocessed"
    /\ \E draws \in [DOMAIN features_df -> NoiseValues] :
          /\ noise' = draws
          /\ train_y' = _create_synthetic_targets(features_df, feature_columns, draws)
    /\ UNCHANGED <<mainVars, df, columns, clock, features_df, prev_features_df,
                   wallet_features, raw_scores, calibrated_scores, results,
                   feature_columns>>

\* score_wallets: X = features_df.drop('wallet_address', axis=1);
\* X_processed = self._preprocess_features(X)
ScorerPreprocess ==
    /\ pc = "features"
    /\ LET X == _preprocess_features(drop_wallet_address(features_df))
       IN  /\ train_X' = X
           /\ pc' = IF selector_raises(X) THEN "score rejected" ELSE "score preprocessed"
    /\ UNCHANGED <<mainVars, df, columns, clock, features_df, prev_features_df,
                   wallet_features, raw_scores, calibrated_scores, results,
                   feature_columns, noise, train_y>>

SpecPreprocess == InitPreprocess /\ [][TrainerPreprocess \/ ScorerPreprocess]_vars

\* The values of a column that are numbers: neither the sentinel nor NaN.
NumbersOf(frame, c) == SelectSeq(Col(frame, c), LAMBDA v : v.k = "fin")

\* C26: in the preprocessing of the trainer and of the scorer every
\* infinite sentinel is replaced by the median of the numbers of its column
\* before scaling, and no infinite or undefined value is left in the
\* matrix, also when every account holds the sentinel in a column.
\* Violated: a column in which every account holds the sentinel (or every
\* account holds NaN) has no median, stays NaN and makes the feature
\* selector reject the matrix.
C26_SentinelsReplaced ==
    pc # "features" =>
        /\ pc \in {"train preprocessed", "score preprocessed"}
        /\ \A i \in DOMAIN train_X : \A c \in DOMAIN train_X[i] :
              /\ IsFinite(train_X[i][c])
              /\ features_df[i][c].k = "inf" /\ NumbersOf(features_df, c) # <<>>
                 => train_X[i][c] = MedianOfValues(NumbersOf(features_df, c))

\* C27: calibration preserves the order of the raw scores of a population:
\* an account with a raw score not above another's gets a calibrated score
\* not above the other's, and accounts with equal raw scores get equal
\* calibrated scores and the same risk tier.
C27_OrderPreserved ==
    pc = "calibrated" =>
        \A i, j \in DOMAIN raw_scores :
            /\ raw_scores[i] <= raw_scores[j]
                  => calibrated_scores[i] <= calibrated_scores[j]
            /\ raw_scores[i] = raw_scores[j] =>
                  /\ calibrated_scores[i] = calibrated_scores[j]
                  /\ _assign_risk_category(calibrated_scores[i])
                         = _assign_risk_category(calibrated_scores[j])

\* C27 witness: a population with two tied accounts between a lower and a
\* higher one; the tied accounts share a score strictly between the others'.
C27_Witness ==
    /\ pc = "calibrated"
    /\ \E i, j, k, l \in DOMAIN raw_scores :
          /\ i # j /\ raw_scores[i] = raw_scores[j]
          /\ raw_scores[l] < raw_scores[i] /\ raw_scores[i] < raw_scores[k]
          /\ calibrated_scores[l] < calibrated_scores[i]
          /\ calibrated_scores[i] = calibrated_scores[j]
          /\ calibrated_scores[i] < calibrated_scores[k]

\* The sequence s with the elements at i and j exchanged.
Exchanged(s, i, j) ==
    [k \in DOMAIN s |-> IF k = i THEN s[j] ELSE IF k = j THEN s[i] ELSE s[k]]

\* C28: the calibrated score of an account depends on its raw score and on
\* the multiset of the raw scores of its population only: exchanging two
\* accounts of the population (every reordering is a sequence of
\* exchanges) exchanges their calibrated scores and changes no other; and
\* it does depend on the population: a raw score that is calibrated above
\* 0 in its population is calibrated to 0 in the population of itself
\* alone.
C28_PopulationOnly ==
    pc = "calibrated" =>
        /\ \A i, j \in DOMAIN raw_scores :
              _calibrate_scores(Exchanged(raw_scores, i, j))
                  = Exchanged(calibrated_scores, i, j)
        /\ \A i \in DOMAIN raw_scores :
              calibrated_scores[i] > 0
                  => _calibrate_scores(<<raw_scores[i]>>)[1] # calibrated_scores[i]

\* C28 witness: a population with a tie and three different raw scores in
\* which exchanging the first and the last account changes the sequence,
\* and an account scored above 0 that would get 0 alone.
C28_Witness ==
    /\ pc = "calibrated"
    /\ Len(raw_scores) = 4
    /\ raw_scores[1] < raw_scores[4]
    /\ raw_scores[2] = raw_scores[4]
    /\ raw_scores[3] > raw_scores[4]
    /\ calibrated_scores[4] > 0
    /\ _calibrate_scores(<<raw_scores[4]>>)[1] = 0
    /\ _calibrate_scores(Exchanged(raw_scores, 1, 4))[1] = calibrated_scores[4]

\* C13: target generation on a population of zero accounts fails: a run
\* that trains (retraining requested or no model file) on the frame of
\* zero accounts ends in the model stage with an error and exit status 1;
\* no target set, empty or not, is returned and no model is obtained.
C13_EmptyPopulationNoTargets ==
    /\ pc \in ModelObtained \cup {"model failed"}
    /\ features_df = <<>>
    /\ should_train(model.retrain, model.model_exists)
    => /\ pc = "model failed"
       /\ model.kind = "none"
       /\ model.targets = 0
       /\ exit_status = 1
       /\ output = NotWritten

\* C13 witness: every record of the file was dropped, feature extraction
\* gave the frame of zero accounts, no model file existed and the
\* training raised.
C13_Witness ==
    /\ pc = "model failed"
    /\ raw_data # <<>>
    /\ df = <<>>
    /\ features_df = <<>>
    /\ ~model.retrain /\ ~model.model_exists
    /\ model.targets = 0
    /\ exit_status = 1

=============================================================================
